---- MODULE Spec2Model ----
(***************************************************************************)
(* Model of the practice-session registry (ChessService), the engine       *)
(* orchestrator (EngineService.analyzePosition) and the per-user game      *)
(* ingestion (ChessService.getRecentGamesForUser) of the ctai backend.     *)
(*                                                                         *)
(* The rules engine (chess.js) is a collaborator of the backend: it is     *)
(* represented by a small two-pawn game on a 2x3 board that keeps the      *)
(* features the backend relies on: a side to move, legal and illegal       *)
(* moves, captures, promotions that need a promotion letter, positions     *)
(* without a legal move, FEN normalisation and invalid FEN strings.        *)
(* Strings that the code slices or splits are sequences of characters.     *)
(***************************************************************************)
EXTENDS Integers, Sequences, FiniteSets, TLC

----------------------------------------------------------------------------
(* Bounds *)

MaxSessions == 2

MaxGames == 2

----------------------------------------------------------------------------
(* Generic helpers mirroring the JavaScript built-ins the code uses *)

Undef == "undefined"

Min(a, b) == IF a < b THEN a ELSE b

\* String.prototype.slice(a, b) for 0 <= a <= b
JsSlice(s, a, b) == SubSeq(s, a + 1, Min(b, Len(s)))

Range(s) == {s[i] : i \in 1..Len(s)}

----------------------------------------------------------------------------
(* The rules engine: a two-pawn game standing for chess.js *)

RankChars == <<"1", "2", "3">>

TopRank == Len(RankChars)

Sq(f, r) == [f |-> f, r |-> r]

\* algebraic name of a square, as characters
Algebraic(sq) == <<sq.f, RankChars[sq.r]>>

OtherFile(f) == IF f = "a" THEN "b" ELSE "a"

Gone == [k |-> "x", sq |-> Sq("a", 1)]

Piece(k, f, r) == [k |-> k, sq |-> Sq(f, r)]

Pos(turn, w, b) == [turn |-> turn, w |-> w, b |-> b, ep |-> "-"]

DEFAULT_POSITION == Pos("w", Piece("p", "a", 1), Piece("p", "b", TopRank))

Own(pos) == IF pos.turn = "w" THEN pos.w ELSE pos.b

Other(pos) == IF pos.turn = "w" THEN pos.b ELSE pos.w

Occupied(pos, sq) ==
  \/ (pos.w.k # "x" /\ pos.w.sq = sq)
  \/ (pos.b.k # "x" /\ pos.b.sq = sq)

\* a pawn's target squares, the push first and the capture second
PawnTargets(pos) ==
  LET me == Own(pos)
      r2 == me.sq.r + (IF pos.turn = "w" THEN 1 ELSE -1)
      push == Sq(me.sq.f, r2)
      capt == Sq(OtherFile(me.sq.f), r2)
  IN IF me.k # "p" \/ r2 < 1 \/ r2 > TopRank THEN <<>>
     ELSE (IF Occupied(pos, push) THEN <<>> ELSE <<push>>) \o
          (IF Other(pos).k # "x" /\ Other(pos).sq = capt THEN <<capt>> ELSE <<>>)

\* the moves to one target square: on the last rank a promotion to a queen
\* and one to a knight
MovesTo(pos, sq) ==
  LET from == Own(pos).sq
  IN IF sq.r = (IF pos.turn = "w" THEN TopRank ELSE 1)
     THEN <<[from |-> from, to |-> sq, promotion |-> "q"],
            [from |-> from, to |-> sq, promotion |-> "n"]>>
     ELSE <<[from |-> from, to |-> sq, promotion |-> Undef]>>

RECURSIVE MovesOver(_, _, _)
MovesOver(pos, targets, i) ==
  IF i > Len(targets) THEN <<>>
  ELSE MovesTo(pos, targets[i]) \o MovesOver(pos, targets, i + 1)

\* chess.moves({verbose: true}): the legal moves in generation order
Moves(pos) == MovesOver(pos, PawnTargets(pos), 1)

\* the position after a generated move
MakeMove(pos, m) ==
  LET moved == [k |-> IF m.promotion = Undef THEN Own(pos).k ELSE m.promotion, sq |-> m.to]
      them == IF Other(pos).k # "x" /\ Other(pos).sq = m.to THEN Gone ELSE Other(pos)
  IN IF pos.turn = "w" THEN Pos("b", moved, them) ELSE Pos("w", them, moved)

\* chess.move({from, to, promotion}): the first generated move with these
\* squares whose promotion, when it has one, is the one asked for
MatchingMoves(pos, from, to, promotion) ==
  SelectSeq(Moves(pos),
            LAMBDA m : /\ Algebraic(m.from) = from
                       /\ Algebraic(m.to) = to
                       /\ (m.promotion = Undef \/ m.promotion = promotion))

\* ok = FALSE is the rejection of an illegal move
ChessMove(pos, from, to, promotion) ==
  LET ms == MatchingMoves(pos, from, to, promotion)
  IN IF Len(ms) = 0 THEN [ok |-> FALSE, pos |-> pos]
     ELSE [ok |-> TRUE, pos |-> MakeMove(pos, ms[1])]

IsGameOver(pos) == Len(Moves(pos)) = 0

\* raw FEN arguments: none, a printed position, the same position with a
\* stale en-passant square, or text that is no position at all
NoFen == [kind |-> "none", pos |-> DEFAULT_POSITION]

GarbageFen == [kind |-> "garbage", pos |-> DEFAULT_POSITION]

FenText(pos) == [kind |-> "text", pos |-> pos]

StaleEp(pos) == [pos EXCEPT !.ep = "a3"]

\* new Chess(fen).fen(): no argument loads the default position, invalid
\* text throws (ok = FALSE), and the en-passant square is printed only when
\* it is usable, which it never is in this game
LoadFen(fen) ==
  IF fen.kind = "none" THEN [ok |-> TRUE, pos |-> DEFAULT_POSITION]
  ELSE IF fen.kind = "garbage" THEN [ok |-> FALSE, pos |-> DEFAULT_POSITION]
  ELSE [ok |-> TRUE, pos |-> [fen.pos EXCEPT !.ep = "-"]]

\* the move-token parsing shared by userMove and the engine reply
MoveToken(pos, tok) ==
  ChessMove(pos, JsSlice(tok, 0, 2), JsSlice(tok, 2, 4),
            IF Len(tok) = 5 THEN tok[5] ELSE Undef)

RECURSIVE ReplayFrom(_, _, _)
ReplayFrom(pos, hist, i) ==
  IF i > Len(hist) THEN [ok |-> TRUE, pos |-> pos]
  ELSE IF MoveToken(pos, hist[i]).ok
       THEN ReplayFrom(MoveToken(pos, hist[i]).pos, hist, i + 1)
       ELSE [ok |-> FALSE, pos |-> pos]

\* the position reached by replaying a move history through the rules engine
Replay(initialFen, hist) == ReplayFrom(initialFen, hist, 1)

----------------------------------------------------------------------------
(* EngineService *)

\* optional values (number | null, T | undefined) are sequences of length <= 1
None == <<>>

Some(v) == <<v>>

Analysis(bestMove, evaluation, depth, pv, source) ==
  [bestMove |-> bestMove, evaluation |-> evaluation, depth |-> depth,
   pv |-> pv, source |-> source]

NoAnalysis == Analysis(<<>>, None, 0, <<>>, Undef)

PieceValue(k) ==
  CASE k = "p" -> 100
    [] k = "n" -> 320
    [] k = "b" -> 330
    [] k = "r" -> 500
    [] k = "q" -> 900
    [] OTHER -> 0

\* evaluateMaterial: white's pieces count positive, black's negative
evaluateMaterial(pos) == PieceValue(pos.w.k) - PieceValue(pos.b.k)

UciOf(m) == Algebraic(m.from) \o Algebraic(m.to) \o
            (IF m.promotion = Undef THEN <<>> ELSE <<m.promotion>>)

\* the loop of simpleFallback over moves[i..]: best = <<>> stands for the
\* initial bestScore of -Infinity, otherwise <<score, move>>
RECURSIVE FallbackLoop(_, _, _, _)
FallbackLoop(pos, moves, i, best) ==
  IF i > Len(moves) THEN best
  ELSE LET score == evaluateMaterial(MakeMove(pos, moves[i]))
           adjusted == IF pos.turn = "w" THEN score ELSE -score
       IN IF best = <<>> \/ adjusted > best[1]
          THEN FallbackLoop(pos, moves, i + 1, <<adjusted, UciOf(moves[i])>>)
          ELSE FallbackLoop(pos, moves, i + 1, best)

RECURSIVE FallbackLoopLast(_, _, _, _)
FallbackLoopLast(pos, moves, i, best) ==
  IF i > Len(moves) THEN best
  ELSE LET score == evaluateMaterial(MakeMove(pos, moves[i]))
           adjusted == IF pos.turn = "w" THEN score ELSE -score
       IN IF best = <<>> \/ adjusted >= best[1]
          THEN FallbackLoopLast(pos, moves, i + 1, <<adjusted, UciOf(moves[i])>>)
          ELSE FallbackLoopLast(pos, moves, i + 1, best)

\* mutant: a later move that is as good replaces the best one
simpleFallbackLastOnTies(pos, depth) ==
  IF Len(Moves(pos)) = 0 THEN Analysis(<<>>, None, depth, <<>>, "fallback")
  ELSE Analysis(FallbackLoopLast(pos, Moves(pos), 1, <<>>)[2],
                Some(FallbackLoopLast(pos, Moves(pos), 1, <<>>)[1]), depth,
                <<FallbackLoopLast(pos, Moves(pos), 1, <<>>)[2]>>, "fallback")

simpleFallback(pos, depth) ==
  LET moves == Moves(pos)
      best == FallbackLoop(pos, moves, 1, <<>>)
  IN IF Len(moves) = 0 THEN Analysis(<<>>, None, depth, <<>>, "fallback")
     ELSE Analysis(best[2], Some(best[1]), depth, <<best[2]>>, "fallback")

\* outcome of runLocalUciEngine as analyzePosition sees it: the promise
\* resolves with an analysis or rejects (spawn error, timeout, no result)
LocalResolved(a) == [kind |-> "resolve", why |-> "", a |-> a]

LocalRejected(why) == [kind |-> "reject", why |-> why, a |-> NoAnalysis]

\* outcome of axios.get: a request error, or a response with a status and a
\* body whose pvs list may be missing or empty
CloudError == [kind |-> "error", status |-> 0, pvs |-> <<>>]

CloudResponse(status, pvs) == [kind |-> "response", status |-> status, pvs |-> pvs]

\* one principal variation of the payload: moves is a string, another
\* (truthy) JSON value, or absent
Pv(movesType, moves, cp, mate, depth) ==
  [movesType |-> movesType, moves |-> moves, cp |-> cp, mate |-> mate, depth |-> depth]

RECURSIVE SplitFrom(_, _, _, _)
SplitFrom(s, sep, i, word) ==
  IF i > Len(s) THEN <<word>>
  ELSE IF s[i] = sep THEN <<word>> \o SplitFrom(s, sep, i + 1, <<>>)
  ELSE SplitFrom(s, sep, i + 1, Append(word, s[i]))

\* String.prototype.split(sep) for a one-character separator
Split(s, sep) == SplitFrom(s, sep, 1, <<>>)

\* .filter(Boolean) on a list of strings
NonEmpty(words) == SelectSeq(words, LAMBDA w : Len(w) > 0)

Returned(a, tiers) == [kind |-> "return", a |-> a, tiers |-> tiers]

Thrown(tiers) == [kind |-> "throw", a |-> NoAnalysis, tiers |-> tiers]

\* mutant: the mate value of the variation is not looked at
CloudTryCpOnly(pos, depth, co, tiers) ==
  IF /\ co.kind = "response" /\ co.status = 200 /\ Len(co.pvs) > 0
     /\ co.pvs[1].movesType = "string" /\ Len(co.pvs[1].moves) > 0
  THEN Returned(Analysis(IF Len(NonEmpty(Split(co.pvs[1].moves, " "))) > 0
                         THEN NonEmpty(Split(co.pvs[1].moves, " "))[1] ELSE <<>>,
                         co.pvs[1].cp,
                         IF Len(co.pvs[1].depth) = 1 THEN co.pvs[1].depth[1] ELSE depth,
                         NonEmpty(Split(co.pvs[1].moves, " ")), "cloud"),
                tiers)
  ELSE Thrown(tiers)

\* the body of the try block of the cloud tier
CloudTry(pos, depth, co, tiers) ==
  IF co.kind = "error" THEN Thrown(tiers)
  ELSE IF co.status # 200 THEN Thrown(tiers)
  ELSE IF Len(co.pvs) = 0 THEN Returned(simpleFallback(pos, depth), Append(tiers, "fallback"))
  ELSE LET pv0 == co.pvs[1]
           moves == NonEmpty(Split(pv0.moves, " "))
           evalCp == IF Len(pv0.cp) = 1 THEN pv0.cp
                     ELSE IF Len(pv0.mate) = 1
                          THEN Some(IF pv0.mate[1] > 0 THEN 100000 ELSE -100000)
                          ELSE None
       IN IF pv0.movesType = "absent" \/ (pv0.movesType = "string" /\ Len(pv0.moves) = 0)
          THEN Returned(simpleFallback(pos, depth), Append(tiers, "fallback"))
          ELSE IF pv0.movesType # "string" THEN Thrown(tiers)
          ELSE Returned(Analysis(IF Len(moves) > 0 THEN moves[1] ELSE <<>>, evalCp,
                                 IF Len(pv0.depth) = 1 THEN pv0.depth[1] ELSE depth,
                                 moves, "cloud"),
                        tiers)

\* mutant: the cloud tier without its catch block
CloudTierNoCatch(pos, depth, co, tiers) == CloudTry(pos, depth, co, Append(tiers, "cloud"))

\* the cloud tier with its catch block
CloudTier(pos, depth, co, tiers) ==
  LET t == CloudTry(pos, depth, co, Append(tiers, "cloud"))
  IN IF t.kind = "throw"
     THEN Returned(simpleFallback(pos, depth), Append(t.tiers, "fallback"))
     ELSE t

\* mutant: the local result is not returned, the call goes on to the next tier
LocalTierFallsThrough(env, lo, tiers) ==
  [kind |-> "next", a |-> NoAnalysis,
   tiers |-> IF env.STOCKFISH_PATH THEN Append(tiers, "local") ELSE tiers]

\* the local tier with its catch block: kind "next" falls through
LocalTier(env, lo, tiers) ==
  IF ~env.STOCKFISH_PATH THEN [kind |-> "next", a |-> NoAnalysis, tiers |-> tiers]
  ELSE IF lo.kind = "resolve"
       THEN Returned([lo.a EXCEPT !.source = "local"], Append(tiers, "local"))
       ELSE [kind |-> "next", a |-> NoAnalysis, tiers |-> Append(tiers, "local")]

\* analyzePosition(fen, {depth}) under the configuration env, when the local
\* run would end as lo and the remote request as co
analyzePosition(pos, depth, env, lo, co) ==
  LET l == LocalTier(env, lo, <<>>)
  IN IF l.kind # "next" THEN l
     ELSE IF env.ENGINE_API_URL THEN CloudTier(pos, depth, co, l.tiers)
     ELSE Returned(simpleFallback(pos, depth), Append(l.tiers, "fallback"))

\* a best move no position accepts
BogusMove == <<"(", "n", "o", "n", "e", ")">>

\* best moves an engine may answer for pos: a legal move, none, or a bogus one
BestMoves(pos) == {UciOf(Moves(pos)[i]) : i \in 1..Len(Moves(pos))} \cup {<<>>, BogusMove}

\* the depth userMove asks the engine for
MoveDepth == 14

\* ends of a local run: resolved with some best move, or rejected
LocalOutcomes(pos) ==
  {LocalResolved(Analysis(bm, IF bm = BogusMove THEN None ELSE Some(35), MoveDepth,
                          IF bm = <<>> THEN <<>> ELSE <<bm>>, Undef)) :
     bm \in BestMoves(pos)}
  \cup {LocalRejected("spawn error"), LocalRejected("timeout")}

Join(a, b) == a \o <<" ">> \o b

\* answers of the remote endpoint: a request error, a non-200 status, bodies
\* without a usable first variation, and bodies with one
CloudOutcomes(pos) ==
  {CloudError, CloudResponse(500, <<>>),
   CloudResponse(429, <<Pv("string", <<"a", "1", "a", "2">>, Some(10), None, None)>>),
   CloudResponse(200, <<>>),
   CloudResponse(200, <<Pv("absent", <<>>, Some(10), None, None)>>),
   CloudResponse(200, <<Pv("string", <<>>, Some(10), None, None)>>),
   CloudResponse(200, <<Pv("number", <<>>, Some(10), None, None)>>),
   CloudResponse(200, <<Pv("string", <<" ">>, None, None, None)>>),
   CloudResponse(200, <<Pv("string", BogusMove, None, Some(-3), None)>>)}
  \cup {CloudResponse(200, <<Pv("string", Join(bm, <<"b", "3", "b", "2">>), Some(-20), Some(2), Some(22))>>) :
          bm \in BestMoves(pos) \ {<<>>, BogusMove}}

\* process.env as a call reads it: which engine tiers are configured
Envs == [STOCKFISH_PATH : BOOLEAN, ENGINE_API_URL : BOOLEAN]

\* a custom start in which white may push or capture
StartA == Pos("w", Piece("p", "a", 1), Piece("p", "b", 2))

\* positions analyzePosition is called on directly: starts, middle games
\* with a capture or a promotion on offer, one in which the piece on offer
\* is worth nothing, so that push and capture tie, and positions without a
\* move
EnginePositions ==
  {DEFAULT_POSITION, StartA,
   Pos("w", Piece("p", "a", 1), Piece("k", "b", 2)),
   Pos("b", Piece("p", "a", 2), Piece("p", "b", 3)),
   Pos("w", Piece("p", "a", 2), Piece("p", "b", 3)),
   Pos("b", Piece("p", "a", 1), Piece("p", "b", 2)),
   Pos("b", Piece("q", "a", 3), Piece("p", "b", 2)),
   Pos("w", Gone, Piece("p", "a", 2)),
   Pos("b", Piece("p", "a", 2), Piece("p", "a", 3))}

----------------------------------------------------------------------------
(* State *)

VARIABLES
  sessions,     \* ChessService.sessions: a map from id to ChessSession
  last,         \* the last session call, its arguments and its outcome
  call,         \* the last direct analyzePosition call and what it returned
  recent,       \* the last getRecentGamesForUser call and what it returned
  cacheFile,    \* the top-games cache file
  clock,        \* Date.now(), in milliseconds
  top,          \* the last getTopGames call and what it returned
  run,          \* the local engine run in progress
  replay,       \* the last transcript replayed on its own and its positions
  race          \* two getTopGames calls in progress at once and the bytes on disk

vars == <<sessions, last, call, recent, cacheFile, clock, top, run, replay, race>>

NoCall == [made |-> FALSE]

\* no cache file on disk
NoFile == [kind |-> "missing", cachedAt |-> <<>>, isList |-> FALSE, games |-> <<>>]

\* the 6 hours of TOP_GAMES_CACHE_TTL_MS
TOP_GAMES_CACHE_TTL_MS == 6 * 60 * 60 * 1000

\* the time at which the process starts
StartMs == 10 * TOP_GAMES_CACHE_TTL_MS

\* the promise of a local run before it is settled
Pending == [kind |-> "pending", why |-> "", a |-> NoAnalysis]

\* no local engine run has been started
NoRun ==
  [started |-> FALSE, pos |-> DEFAULT_POSITION, env |-> [STOCKFISH_PATH |-> FALSE, ENGINE_API_URL |-> FALSE],
   spawned |-> FALSE,
   alive |-> FALSE, out |-> <<>>, bestMove |-> <<>>, evalCp |-> None, pv |-> <<>>,
   resolved |-> FALSE, timer |-> "none", kills |-> 0, settles |-> 0, errored |-> FALSE,
   promise |-> Pending, returned |-> FALSE, ret |-> Returned(NoAnalysis, <<>>),
   seen |-> <<>>, endedAt |-> -1, text |-> <<>>]

\* a getTopGames call that has not begun
Idle == [pc |-> "idle", games |-> <<>>, at |-> 0]

\* no concurrent getTopGames calls
NoRace == [calls |-> <<Idle, Idle>>, disk |-> <<>>]

\* the state after construction: no session, no call made, no cache file
Init ==
  /\ sessions = <<>>
  /\ last = [op |-> "init"]
  /\ call = NoCall
  /\ recent = NoCall
  /\ cacheFile = NoFile
  /\ clock = StartMs
  /\ top = NoCall
  /\ run = NoRun
  /\ replay = NoCall
  /\ race = NoRace

----------------------------------------------------------------------------
(* EngineService.analyzePosition called on its own *)

AnalyzePosition ==
  /\ ~call.made
  /\ \E pos \in EnginePositions, env \in Envs :
       \E lo \in LocalOutcomes(pos), co \in CloudOutcomes(pos) :
         call' = [made |-> TRUE, pos |-> pos, env |-> env, lo |-> lo, co |-> co,
                  out |-> analyzePosition(pos, MoveDepth, env, lo, co)]
  /\ UNCHANGED <<sessions, last, recent, cacheFile, clock, top, run, replay, race>>

NextEngine == AnalyzePosition

SpecEngine == Init /\ [][NextEngine]_vars

----------------------------------------------------------------------------
(* ChessService: the session registry *)

Colors == {"white", "black"}

UserIds == {"u1"}

\* initialFen arguments tried by createSession
FenArgs == {NoFen, FenText(StartA), FenText(StaleEp(StartA)), GarbageFen}

\* move tokens a user may send: moves of the game, a capture with a needless
\* promotion letter, a promotion without its letter, an over-long token and
\* an off-board token
UserTokens ==
  {<<"a", "1", "a", "2">>, <<"a", "2", "a", "3", "q">>, <<"a", "2", "a", "3">>,
   <<"a", "1", "b", "2">>, <<"b", "3", "b", "2">>, <<"b", "3", "a", "2", "q">>,
   <<"b", "2", "b", "1", "n">>, <<"b", "2", "b", "1", "n", "n">>,
   <<"e", "2", "e", "9">>}

\* tokens tried whatever the position, most of them illegal in it
Probes ==
  {<<"e", "2", "e", "9">>, <<"a", "2", "a", "3">>, <<"b", "2", "b", "1", "n", "n">>,
   <<"b", "3", "b", "2">>}

Session(id, userId, initialFen, currentFen, userColor, moveHistory) ==
  [id |-> id, userId |-> userId, initialFen |-> initialFen, currentFen |-> currentFen,
   userColor |-> userColor, moveHistory |-> moveHistory]

Ids == DOMAIN sessions

\* an id no session has
UnknownId == "0"

\* mutant: the id does not depend on the sessions there are
NewIdFixed(map) == ToString(1)

\* (this.sessions.size + 1).toString()
NewId(map) == ToString(Cardinality(DOMAIN map) + 1)

\* Map.prototype.set
MapSet(map, k, v) == [x \in DOMAIN map \cup {k} |-> IF x = k THEN v ELSE map[x]]

createSession(userId, initialFen, userColor) ==
  LET chess == LoadFen(initialFen)
      session == Session(NewId(sessions), userId, chess.pos, chess.pos, userColor, <<>>)
  IN IF ~chess.ok
     THEN /\ last' = [op |-> "create", ok |-> FALSE, pre |-> sessions]
          /\ UNCHANGED sessions
     ELSE /\ sessions' = MapSet(sessions, session.id, session)
          /\ last' = [op |-> "create", ok |-> TRUE, pre |-> sessions, id |-> session.id,
                      userId |-> userId, initialFen |-> initialFen, userColor |-> userColor]

CreateSession ==
  /\ Cardinality(Ids) < MaxSessions
  /\ \E userId \in UserIds, initialFen \in FenArgs, userColor \in Colors :
       createSession(userId, initialFen, userColor)
  /\ UNCHANGED <<call, recent, cacheFile, clock, top, run, replay, race>>

\* mutant: the history is not cleared
ResetOfKeepsHistory(session) ==
  [session EXCEPT !.currentFen = LoadFen(FenText(session.initialFen)).pos]

\* the session after resetSession's two assignments
ResetOf(session) ==
  [session EXCEPT !.currentFen = LoadFen(FenText(session.initialFen)).pos,
                  !.moveHistory = <<>>]

\* getSession on an id without a session: NotFoundException, nothing changes
NotFound(op, id) ==
  /\ id \notin Ids
  /\ last' = [op |-> op, ok |-> FALSE, id |-> id, err |-> "NotFound"]
  /\ UNCHANGED sessions

resetSession(id) ==
  \/ NotFound("reset", id)
  \/ /\ id \in Ids
     /\ sessions' = [sessions EXCEPT ![id] = ResetOf(sessions[id])]
     /\ last' = [op |-> "reset", ok |-> TRUE, id |-> id, pre |-> sessions[id]]

ResetSession ==
  /\ \E id \in Ids \cup {UnknownId} : resetSession(id)
  /\ UNCHANGED <<call, recent, cacheFile, clock, top, run, replay, race>>

\* mutant: the color is set rather than flipped
FlipToBlack(color) == "black"

Flip(color) == IF color = "white" THEN "black" ELSE "white"

SwitchOf(session) == [ResetOf(session) EXCEPT !.userColor = Flip(session.userColor)]

\* twice is whether the call before this one was a switchSide of the same
\* session, and first is the session as it was before that call
switchSide(id) ==
  \/ NotFound("switch", id)
  \/ /\ id \in Ids
     /\ sessions' = [sessions EXCEPT ![id] = SwitchOf(sessions[id])]
     /\ LET twice == last.op = "switch" /\ last.ok /\ last.id = id
        IN last' = [op |-> "switch", ok |-> TRUE, id |-> id, pre |-> sessions[id],
                    twice |-> twice, first |-> IF twice THEN last.pre ELSE sessions[id]]

SwitchSide ==
  /\ \E id \in Ids \cup {UnknownId} : switchSide(id)
  /\ UNCHANGED <<call, recent, cacheFile, clock, top, run, replay, race>>

ColorOf(turn) == IF turn = "w" THEN "white" ELSE "black"

\* mutant: the game-over test is missing
EngineTurnAnyPosition(session, pos) == ColorOf(pos.turn) # session.userColor

\* the engine is asked for a reply to the position after the user's move
EngineTurn(session, pos) == ColorOf(pos.turn) # session.userColor /\ ~IsGameOver(pos)

\* mutant: currentFen is not updated
PushedHistoryOnly(session, token, pos) ==
  [session EXCEPT !.moveHistory = Append(@, token)]

\* the two assignments that record an accepted move
Pushed(session, token, pos) ==
  [session EXCEPT !.moveHistory = Append(@, token), !.currentFen = pos]

\* mutant: the token is recorded before the move is validated
AfterRejectedPushed(session, moveUci) ==
  [session EXCEPT !.moveHistory = Append(@, moveUci)]

\* the session when the user's move is rejected: the exception leaves
\* userMove before any assignment
AfterRejected(session, moveUci) == session

\* mutant: the user's token is recorded again in place of the engine's move
EngineReplyWrongToken(session, moveUci, bestMove, pos) == Pushed(session, moveUci, pos)

\* the session after the engine's accepted reply
EngineReply(session, moveUci, bestMove, pos) == Pushed(session, bestMove, pos)

\* what one userMove call does to its session and what it reports; calls
\* lists the analyzePosition calls made, each with its position and answer
Outcome(session, ok, err, calls, engineMove) ==
  [session |-> session, ok |-> ok, err |-> err, calls |-> calls, engineMove |-> engineMove]

\* the one analyzePosition call has ended as out: the engine's move, if
\* there is one, is played, and is rejected by a throw, rejected by null
\* (then skipped), or recorded
Answered(s1, moveUci, out, rm) ==
  LET made == <<[pos |-> s1.currentFen, kind |-> out.kind, a |-> out.a]>>
      em == MoveToken(s1.currentFen, out.a.bestMove)
  IN IF out.kind = "throw" THEN Outcome(s1, FALSE, "Internal", made, None)
     ELSE IF Len(out.a.bestMove) = 0 THEN Outcome(s1, TRUE, "", made, None)
     ELSE IF ~em.ok /\ rm = "throws" THEN Outcome(s1, FALSE, "Internal", made, None)
     ELSE IF ~em.ok THEN Outcome(s1, TRUE, "", made, None)
     ELSE Outcome(EngineReply(s1, moveUci, out.a.bestMove, em.pos), TRUE, "", made,
                  Some(out.a.bestMove))

\* the user's move is recorded as s1; the engine is asked if it is its turn
Recorded(s1, moveUci, env, lo, co, rm) ==
  IF ~EngineTurn(s1, s1.currentFen) THEN Outcome(s1, TRUE, "", <<>>, None)
  ELSE Answered(s1, moveUci, analyzePosition(s1.currentFen, MoveDepth, env, lo, co), rm)

\* the body of userMove on an existing session, when process.env reads as
\* env, the engine, if asked, behaves as lo and co, and the rules engine
\* rejects in mode rm
UserMoveOn(session, moveUci, env, lo, co, rm) ==
  LET result == MoveToken(session.currentFen, moveUci)
  IN IF ~result.ok
     THEN Outcome(AfterRejected(session, moveUci), FALSE, "BadRequest", <<>>, None)
     ELSE Recorded(Pushed(session, moveUci, result.pos), moveUci, env, lo, co, rm)

Stored(id, moveUci, o) ==
  /\ sessions' = [sessions EXCEPT ![id] = o.session]
  /\ last' = [op |-> "move", id |-> id, tok |-> moveUci, pre |-> sessions[id],
              ok |-> o.ok, err |-> o.err, calls |-> o.calls, engineMove |-> o.engineMove]

userMove(id, moveUci, env, lo, co, rm) ==
  \/ NotFound("move", id)
  \/ /\ id \in Ids
     /\ Stored(id, moveUci, UserMoveOn(sessions[id], moveUci, env, lo, co, rm))

NotConfigured == [STOCKFISH_PATH |-> FALSE, ENGINE_API_URL |-> FALSE]

\* what the surroundings of one userMove call may do when the engine is
\* asked about pos: no tier configured, a local run that resolves (with a
\* legal, an empty or a bogus best move) or times out, and then a remote
\* endpoint that answers or fails; the rules engine rejects in either mode
MoveScenarios(pos) ==
  LET legal == IF Len(Moves(pos)) = 0 THEN <<>> ELSE UciOf(Moves(pos)[Len(Moves(pos))])
      local == [STOCKFISH_PATH |-> TRUE, ENGINE_API_URL |-> FALSE]
      both == [STOCKFISH_PATH |-> TRUE, ENGINE_API_URL |-> TRUE]
      ok(bm) == LocalResolved(Analysis(bm, Some(35), MoveDepth, <<bm>>, Undef))
      pv(bm) == CloudResponse(200, <<Pv("string", bm, Some(-20), None, None)>>)
  IN {[env |-> NotConfigured, lo |-> LocalRejected("not run"), co |-> CloudError, rm |-> "throws"],
      [env |-> local, lo |-> ok(legal), co |-> CloudError, rm |-> "throws"],
      [env |-> local, lo |-> ok(<<>>), co |-> CloudError, rm |-> "throws"],
      [env |-> local, lo |-> ok(BogusMove), co |-> CloudError, rm |-> "throws"],
      [env |-> local, lo |-> ok(BogusMove), co |-> CloudError, rm |-> "null"],
      [env |-> both, lo |-> LocalRejected("timeout"), co |-> pv(legal), rm |-> "throws"],
      [env |-> both, lo |-> LocalRejected("timeout"), co |-> CloudResponse(500, <<>>), rm |-> "null"]}

\* a call that never asks the engine runs in one way only
Scenarios(id, moveUci) ==
  LET result == MoveToken(sessions[id].currentFen, moveUci)
  IN IF id \in Ids /\ result.ok /\ EngineTurn(sessions[id], result.pos)
     THEN MoveScenarios(result.pos)
     ELSE {[env |-> NotConfigured, lo |-> LocalRejected("not run"), co |-> CloudError,
            rm |-> "throws"]}

\* the tokens tried on a session: every token its position accepts, and the
\* probes; one probe is enough for an id without a session
TriedTokens(id) ==
  IF id \in Ids
  THEN {t \in UserTokens : t \in Probes \/ MoveToken(sessions[id].currentFen, t).ok}
  ELSE {<<"e", "2", "e", "9">>}

UserMove ==
  /\ \E id \in Ids \cup {UnknownId} :
       \E moveUci \in TriedTokens(id) :
         \E sc \in Scenarios(id, moveUci) :
           userMove(id, moveUci, sc.env, sc.lo, sc.co, sc.rm)
  /\ UNCHANGED <<call, recent, cacheFile, clock, top, run, replay, race>>

Next == CreateSession \/ ResetSession \/ SwitchSide \/ UserMove

Spec == Init /\ [][Next]_vars

----------------------------------------------------------------------------
(* ChessService: game ingestion for one user *)

\* a transcript: text that does not parse, or a move list with an optional
\* FEN tag
Pgn(parses, fen, moves) == [parses |-> parses, fen |-> fen, moves |-> moves]

RECURSIVE FensFrom(_, _, _)
FensFrom(pos, moves, i) ==
  IF i > Len(moves) THEN [ok |-> TRUE, fens |-> <<pos>>]
  ELSE LET r == MoveToken(pos, moves[i])
           rest == FensFrom(r.pos, moves, i + 1)
       IN IF r.ok /\ rest.ok THEN [ok |-> TRUE, fens |-> <<pos>> \o rest.fens]
          ELSE [ok |-> FALSE, fens |-> <<>>]

\* mutant: the FEN tag of the transcript is ignored
buildFenSequenceFromPgnNoTag(pgn) ==
  IF ~pgn.parses THEN <<>> ELSE FensFrom(DEFAULT_POSITION, pgn.moves, 1).fens

RECURSIVE FensUntilFailure(_, _, _)
FensUntilFailure(pos, moves, i) ==
  IF i > Len(moves) \/ ~MoveToken(pos, moves[i]).ok THEN <<pos>>
  ELSE <<pos>> \o FensUntilFailure(MoveToken(pos, moves[i]).pos, moves, i + 1)

\* mutant: the replay stops at the first move that fails and keeps the
\* positions before it
buildFenSequenceFromPgnPartial(pgn) ==
  IF ~pgn.parses \/ ~LoadFen(pgn.fen).ok THEN <<>>
  ELSE FensUntilFailure(LoadFen(pgn.fen).pos, pgn.moves, 1)

\* buildFenSequenceFromPgn: the positions of the game, or the empty list when
\* the transcript does not load or a move fails
buildFenSequenceFromPgn(pgn) ==
  LET start == LoadFen(pgn.fen)
  IN IF ~pgn.parses \/ ~start.ok THEN <<>>
     ELSE FensFrom(start.pos, pgn.moves, 1).fens

\* Date.now() during the call
NowMs == 90000

\* new Date(ms).toISOString() and new Date(iso).getTime()
ToISOString(ms) == <<"iso", ms>>

GetTime(iso) == iso[2]

TrainingGame(id, source, result, endTime, fens) ==
  [id |-> id, source |-> source, result |-> result, endTime |-> endTime, fens |-> fens]

RECURSIVE InsertDesc(_, _)
InsertDesc(sorted, g) ==
  IF Len(sorted) = 0 THEN <<g>>
  ELSE IF GetTime(g.endTime) > GetTime(Head(sorted).endTime) THEN <<g>> \o sorted
  ELSE <<Head(sorted)>> \o InsertDesc(Tail(sorted), g)

RECURSIVE SortFrom(_, _, _)
SortFrom(games, i, sorted) ==
  IF i > Len(games) THEN sorted ELSE SortFrom(games, i + 1, InsertDesc(sorted, games[i]))

\* games.sort((a, b) => time(b) - time(a)): descending by endTime, stable
SortByEndTimeDesc(games) == SortFrom(games, 1, <<>>)

\* Array.prototype.slice(0, n)
Take(seq, n) == SubSeq(seq, 1, Min(n, Len(seq)))

\* a limit as the controller passes it: a number, or NaN
Limit(v) == [finite |-> TRUE, v |-> v]

NaNLimit == [finite |-> FALSE, v |-> 0]

\* mutant: the limit is used as it comes
SafeLimitUnclamped(limit) == IF limit.finite THEN limit.v ELSE 15

\* Math.max(1, Math.min(50, Number.isFinite(limit) ? limit : 15))
SafeLimit(limit) ==
  LET n == Min(50, IF limit.finite THEN limit.v ELSE 15)
  IN IF n > 1 THEN n ELSE 1

\* one line of provider A's export: text that is no JSON, or a game object
LichessLine(json, id, pgn, status, winner, lastMoveAt, createdAt) ==
  [json |-> json, id |-> id, pgn |-> pgn, status |-> status, winner |-> winner,
   lastMoveAt |-> lastMoveAt, createdAt |-> createdAt]

LichessResult(line) ==
  IF line.status = "draw" THEN "½-½"
  ELSE IF line.winner = "white" THEN "1-0"
  ELSE IF line.winner = "black" THEN "0-1"
  ELSE "ongoing"

\* the games of one line: none when the line is skipped
LichessGameOf(line) ==
  LET timeMs == IF Len(line.lastMoveAt) = 1 THEN line.lastMoveAt
                ELSE IF Len(line.createdAt) = 1 THEN line.createdAt ELSE None
      endTime == IF Len(timeMs) = 1 /\ timeMs[1] # 0 THEN ToISOString(timeMs[1])
                 ELSE ToISOString(NowMs)
      fens == buildFenSequenceFromPgn(line.pgn[1])
  IN IF ~line.json \/ line.id = "" \/ Len(line.pgn) = 0 THEN <<>>
     ELSE IF Len(fens) = 0 THEN <<>>
     ELSE <<TrainingGame(<<"lichess", line.id>>, "lichess", LichessResult(line), endTime, fens)>>

RECURSIVE LichessGames(_, _)
LichessGames(lines, i) ==
  IF i > Len(lines) THEN <<>> ELSE LichessGameOf(lines[i]) \o LichessGames(lines, i + 1)

Resolved(games) == [kind |-> "resolve", games |-> games]

Rejects == [kind |-> "reject", games |-> <<>>]

\* an HTTP exchange: a request error, or a status with a body (items is the
\* list the body carries, when it carries one)
HttpError == [kind |-> "error", status |-> 0, hasData |-> FALSE, items |-> <<>>]

HttpResponse(status, hasData, items) ==
  [kind |-> "response", status |-> status, hasData |-> hasData, items |-> items]

\* fetchLichessGames when the request ends as res
fetchLichessGames(username, limit, res) ==
  IF res.kind = "error" THEN Rejects
  ELSE IF res.status # 200 \/ ~res.hasData THEN Resolved(<<>>)
  ELSE Resolved(LichessGames(res.items, 1))

\* one game of provider B's archive
ChessComGame(uuid, pgn, whiteResult, blackResult, end_time) ==
  [uuid |-> uuid, pgn |-> pgn, whiteResult |-> whiteResult, blackResult |-> blackResult,
   end_time |-> end_time]

ChessComResult(g) ==
  IF g.whiteResult = "win" \/ g.blackResult = "resigned" \/ g.blackResult = "timeout"
  THEN "1-0"
  ELSE IF g.blackResult = "win" \/ g.whiteResult = "resigned" \/ g.whiteResult = "timeout"
  THEN "0-1"
  ELSE IF g.whiteResult = "agreed" \/ g.whiteResult = "stalemate" \/ g.whiteResult = "repetition"
  THEN "½-½"
  ELSE "ongoing"

ChessComGameOf(g) ==
  LET endTime == IF Len(g.end_time) = 1 /\ g.end_time[1] # 0
                 THEN ToISOString(g.end_time[1] * 1000) ELSE ToISOString(NowMs)
      fens == buildFenSequenceFromPgn(g.pgn[1])
  IN IF Len(g.pgn) = 0 THEN <<>>
     ELSE IF Len(fens) = 0 THEN <<>>
     ELSE <<TrainingGame(<<"chesscom", g.uuid>>, "chess.com", ChessComResult(g), endTime, fens)>>

\* mutant: the first game that is skipped ends the batch
RECURSIVE ChessComGamesUntilFailure(_, _)
ChessComGamesUntilFailure(raw, i) ==
  IF i > Len(raw) \/ Len(ChessComGameOf(raw[i])) = 0 THEN <<>>
  ELSE ChessComGameOf(raw[i]) \o ChessComGamesUntilFailure(raw, i + 1)

RECURSIVE ChessComGames(_, _)
ChessComGames(raw, i) ==
  IF i > Len(raw) THEN <<>> ELSE ChessComGameOf(raw[i]) \o ChessComGames(raw, i + 1)

\* fetchChessComGames when the archive index request ends as archivesRes and
\* the request for the latest archive as gamesRes; iterable is whether the
\* games value can be iterated
fetchChessComGames(username, limit, archivesRes, gamesRes, iterable) ==
  IF archivesRes.kind = "error" THEN Rejects
  ELSE IF archivesRes.status # 200 \/ ~archivesRes.hasData THEN Resolved(<<>>)
  ELSE IF Len(archivesRes.items) = 0 THEN Resolved(<<>>)
  ELSE IF gamesRes.kind = "error" THEN Rejects
  ELSE IF gamesRes.status # 200 \/ ~gamesRes.hasData THEN Resolved(<<>>)
  ELSE IF Len(gamesRes.items) = 0 THEN Resolved(<<>>)
  ELSE IF ~iterable THEN Rejects
  ELSE Resolved(Take(SortByEndTimeDesc(ChessComGames(gamesRes.items, 1)), limit))

\* mutant: a rejected fetch is not caught
SettledNoCatch(p) == p

\* p.catch(() => []): a rejected fetch counts as an empty list
Settled(p) == IF p.kind = "reject" THEN Resolved(<<>>) ELSE p

RECURSIVE Flat(_)
Flat(lists) == IF Len(lists) = 0 THEN <<>> ELSE Head(lists) \o Flat(Tail(lists))

\* Promise.all: rejects when one of the promises rejects
PromiseAll(ps) ==
  IF \E i \in 1..Len(ps) : ps[i].kind = "reject" THEN [ok |-> FALSE, values |-> <<>>]
  ELSE [ok |-> TRUE, values |-> [i \in 1..Len(ps) |-> ps[i].games]]

\* a user as usersService.findById returns it; a username is <<>> when the
\* account is not linked
User(found, lichessUsername, chessComUsername) ==
  [found |-> found, lichessUsername |-> lichessUsername,
   chessComUsername |-> chessComUsername]

\* what the two providers do during one call
World(lichess, archives, games, iterable) ==
  [lichess |-> lichess, archives |-> archives, games |-> games, iterable |-> iterable]

Result(ok, err, games) == [ok |-> ok, err |-> err, games |-> games]

getRecentGamesForUser(user, limit, w) ==
  LET safeLimit == SafeLimit(limit)
      tasks == (IF Len(user.lichessUsername) > 0
                THEN <<fetchLichessGames(user.lichessUsername, safeLimit, w.lichess)>>
                ELSE <<>>) \o
               (IF Len(user.chessComUsername) > 0
                THEN <<fetchChessComGames(user.chessComUsername, safeLimit, w.archives,
                                          w.games, w.iterable)>>
                ELSE <<>>)
      results == PromiseAll([i \in 1..Len(tasks) |-> Settled(tasks[i])])
  IN IF ~user.found THEN Result(FALSE, "NotFound", <<>>)
     ELSE IF Len(tasks) = 0 THEN Result(TRUE, "", <<>>)
     ELSE IF ~results.ok THEN Result(FALSE, "Rejected", <<>>)
     ELSE Result(TRUE, "", Take(SortByEndTimeDesc(Flat(results.values)), safeLimit))

\* sequences over alphabet of length at most n
RECURSIVE SeqsUpTo(_, _)
SeqsUpTo(alphabet, n) ==
  IF n = 0 THEN {<<>>}
  ELSE SeqsUpTo(alphabet, n - 1) \cup
       {Append(q, x) : q \in {r \in SeqsUpTo(alphabet, n - 1) : Len(r) = n - 1}, x \in alphabet}

PgnPush == Pgn(TRUE, NoFen, <<<<"a", "1", "a", "2">>>>)

PgnCapture == Pgn(TRUE, FenText(StartA), <<<<"a", "1", "b", "2">>, <<"e", "2", "e", "9">>>>)

PgnFromStartA == Pgn(TRUE, FenText(StartA), <<<<"a", "1", "b", "2">>>>)

PgnGarbage == Pgn(FALSE, NoFen, <<>>)

\* lines provider A may send: text that is no JSON, a game without a
\* transcript, a game whose transcript holds an illegal move, and two games
LichessLines ==
  {LichessLine(FALSE, "", None, "", "", None, None),
   LichessLine(TRUE, "n", None, "mate", "white", Some(50000), None),
   LichessLine(TRUE, "x", Some(PgnCapture), "mate", "black", Some(40000), None),
   LichessLine(TRUE, "a", Some(PgnPush), "resign", "white", Some(30000), Some(5000)),
   LichessLine(TRUE, "b", Some(PgnFromStartA), "draw", "", None, Some(10000))}

\* provider A honours max=limit: at most limit lines, and at most MaxGames
LichessOutcomes(limit) ==
  {HttpError, HttpResponse(429, TRUE, <<>>), HttpResponse(200, FALSE, <<>>)}
  \cup {HttpResponse(200, TRUE, lines) : lines \in SeqsUpTo(LichessLines, Min(limit, MaxGames)) \ {<<>>}}

ChessComRaw ==
  {ChessComGame("g", Some(PgnGarbage), "win", "checkmated", Some(60)),
   ChessComGame("c", Some(PgnPush), "win", "resigned", Some(20)),
   ChessComGame("d", Some(PgnFromStartA), "agreed", "agreed", None)}

ArchiveIndex == HttpResponse(200, TRUE, <<"2024/01", "2024/02">>)

\* what provider B may do: fail at the index or at the archive, in each way
\* the code tests for, or deliver games
ChessComOutcomes ==
  {World(HttpError, a, g, TRUE) :
     a \in {HttpError, HttpResponse(404, FALSE, <<>>), HttpResponse(200, TRUE, <<>>)},
     g \in {HttpError}}
  \cup {World(HttpError, ArchiveIndex, g, TRUE) :
          g \in {HttpError, HttpResponse(500, TRUE, <<>>), HttpResponse(200, FALSE, <<>>)}}
  \cup {World(HttpError, ArchiveIndex, HttpResponse(200, TRUE, <<ChessComGame("c", Some(PgnPush), "win", "resigned", Some(20))>>),
           FALSE)}
  \cup {World(HttpError, ArchiveIndex, HttpResponse(200, TRUE, raw), TRUE) :
          raw \in SeqsUpTo(ChessComRaw, MaxGames) \ {<<>>}}

Users ==
  {User(FALSE, <<>>, <<>>), User(TRUE, <<>>, <<>>), User(TRUE, <<"l">>, <<>>),
   User(TRUE, <<>>, <<"c">>), User(TRUE, <<"l">>, <<"c">>)}

Limits == {Limit(0), Limit(1), Limit(2), Limit(51), NaNLimit}

\* the worlds tried for a user: a provider that is not linked is not varied
Worlds(user, limit) ==
  {World(l, c.archives, c.games, c.iterable) :
     l \in IF user.found /\ Len(user.lichessUsername) > 0
           THEN LichessOutcomes(SafeLimit(limit)) ELSE {HttpError},
     c \in IF user.found /\ Len(user.chessComUsername) > 0
           THEN ChessComOutcomes ELSE {World(HttpError, HttpError, HttpError, TRUE)}}

GetRecentGamesForUser ==
  /\ ~recent.made
  /\ \E user \in Users, limit \in Limits :
       \E w \in Worlds(user, limit) :
         recent' = [made |-> TRUE, user |-> user, limit |-> limit, w |-> w,
                    out |-> getRecentGamesForUser(user, limit, w)]
  /\ UNCHANGED <<sessions, last, call, cacheFile, clock, top, run, replay, race>>

NextGames == GetRecentGamesForUser

SpecGames == Init /\ [][NextGames]_vars

----------------------------------------------------------------------------
(* ChessService: top games and their cache *)

\* the cache file as JSON.parse returns it: cachedAt is <<>> when it is
\* absent or falsy, an ISO string, or other text; isList is whether games
\* is an array
CacheEntry(cachedAt, isList, games) ==
  [kind |-> "json", cachedAt |-> cachedAt, isList |-> isList, games |-> games]

\* a file that cannot be read, or whose text is no JSON
GarbageFile == [kind |-> "garbage", cachedAt |-> <<>>, isList |-> FALSE, games |-> <<>>]

\* null
CacheMiss == [hit |-> FALSE, games |-> <<>>]

\* mutant: an entry as old as the TTL is still served
readTopGamesCacheInclusive(file, now) ==
  IF file.kind # "json" THEN CacheMiss
  ELSE IF Len(file.cachedAt) = 0 \/ ~file.isList THEN CacheMiss
  ELSE IF Len(file.cachedAt) = 2 /\ now - GetTime(file.cachedAt) > TOP_GAMES_CACHE_TTL_MS
       THEN CacheMiss
  ELSE [hit |-> TRUE, games |-> file.games]

\* readTopGamesCache at time now. new Date(text).getTime() of text that is
\* no date is NaN, and NaN >= TTL is false
readTopGamesCache(file, now) ==
  IF file.kind # "json" THEN CacheMiss
  ELSE IF Len(file.cachedAt) = 0 \/ ~file.isList THEN CacheMiss
  ELSE IF Len(file.cachedAt) = 2 /\ now - GetTime(file.cachedAt) >= TOP_GAMES_CACHE_TTL_MS
       THEN CacheMiss
  ELSE [hit |-> TRUE, games |-> file.games]

\* mutant: the entry keeps the time of the entry it replaces
writeTopGamesCacheStale(file, now, games, wo) ==
  IF wo = "ok" THEN CacheEntry(file.cachedAt, TRUE, games)
  ELSE IF wo = "torn" THEN GarbageFile
  ELSE file

\* the file after writeTopGamesCache: written, left as it was when mkdir or
\* writeFile fails at once, or left incomplete when writeFile fails midway
writeTopGamesCache(file, now, games, wo) ==
  IF wo = "ok" THEN CacheEntry(ToISOString(now), TRUE, games)
  ELSE IF wo = "torn" THEN GarbageFile
  ELSE file

\* one game of a broadcast transcript: its text, its Date tag as the time
\* the date string stands for, its Site and Result tags
Block(pgn, date, site, result) == [pgn |-> pgn, date |-> date, site |-> site, result |-> result]

\* the loop of parseBroadcastPgn over blocks[i..]
RECURSIVE ParseBlocks(_, _, _, _, _, _)
ParseBlocks(blocks, i, broadcastId, limit, now, games) ==
  IF i > Len(blocks) \/ Len(games) >= limit THEN games
  ELSE IF Len(buildFenSequenceFromPgn(blocks[i].pgn)) = 0
       THEN ParseBlocks(blocks, i + 1, broadcastId, limit, now, games)
  ELSE ParseBlocks(blocks, i + 1, broadcastId, limit, now,
         Append(games,
                TrainingGame(<<"broadcast", broadcastId,
                               IF Len(blocks[i].site) = 1 THEN blocks[i].site[1]
                               ELSE <<"broadcast", Len(games)>>>>,
                             "lichess",
                             IF Len(blocks[i].result) = 1 THEN blocks[i].result[1] ELSE "*",
                             IF Len(blocks[i].date) = 1 THEN ToISOString(blocks[i].date[1])
                             ELSE ToISOString(now),
                             buildFenSequenceFromPgn(blocks[i].pgn))))

parseBroadcastPgn(blocks, broadcastId, limit, now) ==
  Take(SortByEndTimeDesc(ParseBlocks(blocks, 1, broadcastId, limit, now, <<>>)), limit)

\* fetchTopGamesFromBroadcast over the broadcast ids i.., responses[i] being
\* the answer to the request for the i-th id
RECURSIVE fetchTopGamesFromBroadcast(_, _, _, _)
fetchTopGamesFromBroadcast(limit, responses, i, now) ==
  IF i > Len(responses) THEN <<>>
  ELSE IF responses[i].kind = "error" \/ responses[i].status # 200 \/ ~responses[i].hasData
       THEN fetchTopGamesFromBroadcast(limit, responses, i + 1, now)
  ELSE IF Len(parseBroadcastPgn(responses[i].items, i, limit, now)) > 0
       THEN parseBroadcastPgn(responses[i].items, i, limit, now)
  ELSE fetchTopGamesFromBroadcast(limit, responses, i + 1, now)

\* the games request of the leaderboard source has ended as g
LeaderboardGames(limit, g) ==
  IF g.kind = "reject" THEN Rejects ELSE Resolved(Take(SortByEndTimeDesc(g.games), limit))

\* fetchTopGamesFromLeaderboard when the request for the top player ends as
\* lw.top (items are the usernames of its users) and the request for that
\* player's games as lw.games
fetchTopGamesFromLeaderboard(limit, lw) ==
  IF lw.top.kind = "error" THEN Resolved(<<>>)
  ELSE IF lw.top.status # 200 \/ ~lw.top.hasData \/ Len(lw.top.items) = 0 THEN Resolved(<<>>)
  ELSE IF Len(lw.top.items[1]) = 0 THEN Resolved(<<>>)
  ELSE LeaderboardGames(limit, fetchLichessGames(lw.top.items[1], limit, lw.games))

\* what one getTopGames call does: whether it returns, the games it
\* returns, the file it leaves, the sources it asked, the source whose games
\* it returns with those games in full, and whether it wrote the cache
TopResult(ok, games, file, asked, source, fetched, wrote) ==
  [ok |-> ok, games |-> games, file |-> file, asked |-> asked, source |-> source,
   fetched |-> fetched, wrote |-> wrote]

\* the leaderboard source has ended as fl
AfterLeaderboard(safeLimit, file, now, fromBroadcast, fl, wo) ==
  IF fl.kind = "reject"
  THEN TopResult(FALSE, <<>>, file, <<"broadcast", "leaderboard">>, "none", <<>>, FALSE)
  ELSE IF Len(fl.games) > 0
  THEN TopResult(TRUE, Take(fl.games, safeLimit), writeTopGamesCache(file, now, fl.games, wo),
                 <<"broadcast", "leaderboard">>, "leaderboard", fl.games, TRUE)
  ELSE TopResult(TRUE, Take(fromBroadcast, safeLimit), file, <<"broadcast", "leaderboard">>,
                 "broadcast", fromBroadcast, FALSE)

\* mutant: the minimum is 10 games whatever the limit
AfterBroadcastFixedMinimum(safeLimit, file, now, fromBroadcast, lw, wo) ==
  IF Len(fromBroadcast) >= 10
  THEN TopResult(TRUE, Take(fromBroadcast, safeLimit),
                 writeTopGamesCache(file, now, fromBroadcast, wo),
                 <<"broadcast">>, "broadcast", fromBroadcast, TRUE)
  ELSE AfterLeaderboard(safeLimit, file, now, fromBroadcast,
                        fetchTopGamesFromLeaderboard(safeLimit, lw), wo)

\* the broadcast source has delivered fromBroadcast
AfterBroadcast(safeLimit, file, now, fromBroadcast, lw, wo) ==
  IF Len(fromBroadcast) >= Min(10, safeLimit)
  THEN TopResult(TRUE, Take(fromBroadcast, safeLimit),
                 writeTopGamesCache(file, now, fromBroadcast, wo),
                 <<"broadcast">>, "broadcast", fromBroadcast, TRUE)
  ELSE AfterLeaderboard(safeLimit, file, now, fromBroadcast,
                        fetchTopGamesFromLeaderboard(safeLimit, lw), wo)

\* mutant: the cache is not consulted
AfterReadAlwaysRefresh(safeLimit, file, now, cached, bw, lw, wo) ==
  AfterBroadcast(safeLimit, file, now, fetchTopGamesFromBroadcast(safeLimit, bw, 1, now), lw, wo)

\* the cache has been read as cached
AfterRead(safeLimit, file, now, cached, bw, lw, wo) ==
  IF cached.hit /\ Len(cached.games) > 0
  THEN TopResult(TRUE, Take(cached.games, safeLimit), file, <<>>, "cache", cached.games, FALSE)
  ELSE AfterBroadcast(safeLimit, file, now,
                      fetchTopGamesFromBroadcast(safeLimit, bw, 1, now), lw, wo)

\* getTopGames(limit) at time now on the cache file, when the broadcast
\* requests end as bw, the leaderboard requests as lw and a cache write as wo
getTopGames(limit, file, now, bw, lw, wo) ==
  AfterRead(SafeLimit(limit), file, now, readTopGamesCache(file, now), bw, lw, wo)

\* games found in a cache file that this process did not write
OldGames == <<TrainingGame(<<"broadcast", 7, "old">>, "lichess", "1-0", ToISOString(1000),
                           buildFenSequenceFromPgn(PgnPush))>>

\* the cache files the process may find when it starts: none, text that is
\* no JSON, an object without cachedAt, one whose cachedAt is no date, one
\* whose games is no list, an empty entry, and entries one millisecond
\* younger than the TTL, exactly as old, and older
FoundFiles ==
  {NoFile, GarbageFile,
   CacheEntry(<<>>, TRUE, OldGames),
   CacheEntry(<<"yesterday">>, TRUE, OldGames),
   CacheEntry(ToISOString(StartMs), FALSE, <<>>),
   CacheEntry(ToISOString(StartMs), TRUE, <<>>),
   CacheEntry(ToISOString(StartMs - TOP_GAMES_CACHE_TTL_MS + 1), TRUE, OldGames),
   CacheEntry(ToISOString(StartMs - TOP_GAMES_CACHE_TTL_MS), TRUE, OldGames),
   CacheEntry(ToISOString(StartMs - TOP_GAMES_CACHE_TTL_MS - 1), TRUE, OldGames)}

BlockA == Block(PgnPush, Some(50000), Some("A"), Some("1-0"))

BlockB == Block(PgnFromStartA, None, None, None)

\* what the broadcast requests may answer: an error, one game, or a
\* transcript without a usable game followed by one with two games
BroadcastWorlds ==
  {<<HttpError>>,
   <<HttpResponse(200, TRUE, <<BlockA>>)>>,
   <<HttpResponse(200, TRUE, <<Block(PgnGarbage, None, None, None)>>),
     HttpResponse(200, TRUE, <<BlockB, Block(PgnCapture, None, None, None), BlockA>>)>>}

LeaderWorld(t, g) == [top |-> t, games |-> g]

\* what the leaderboard requests may answer: no top player, a failing games
\* request, no game, or one game
LeaderWorlds ==
  {LeaderWorld(HttpError, HttpError),
   LeaderWorld(HttpResponse(200, TRUE, <<<<"t">>>>), HttpError),
   LeaderWorld(HttpResponse(200, TRUE, <<<<"t">>>>), HttpResponse(200, TRUE, <<>>)),
   LeaderWorld(HttpResponse(200, TRUE, <<<<"t">>>>),
               HttpResponse(200, TRUE,
                            <<LichessLine(TRUE, "a", Some(PgnPush), "resign", "white",
                                          Some(30000), Some(5000))>>))}

WriteOutcomes == {"ok", "failed", "torn"}

\* the number of times the clock is advanced
MaxTicks == 2

InitTop ==
  /\ sessions = <<>>
  /\ last = [op |-> "init"]
  /\ call = NoCall
  /\ recent = NoCall
  /\ cacheFile \in FoundFiles
  /\ clock = StartMs
  /\ top = [made |-> FALSE, ticks |-> 0]
  /\ run = NoRun
  /\ replay = NoCall
  /\ race = NoRace

\* a call that hits the cache asks no source, so it runs in one way only
TopWorlds(limit) ==
  IF readTopGamesCache(cacheFile, clock).hit /\ Len(readTopGamesCache(cacheFile, clock).games) > 0
  THEN {[bw |-> <<HttpError>>, lw |-> LeaderWorld(HttpError, HttpError), wo |-> "ok"]}
  ELSE [bw : BroadcastWorlds, lw : LeaderWorlds, wo : WriteOutcomes]

Called(limit, pre, now, ticks, bw, wo, out) ==
  /\ cacheFile' = out.file
  /\ top' = [made |-> TRUE, ticks |-> ticks, limit |-> limit, pre |-> pre, now |-> now,
             bw |-> bw, wo |-> wo, out |-> out]

GetTopGames ==
  /\ \E limit \in {Limit(1), Limit(2), NaNLimit} :
       \E w \in TopWorlds(limit) :
         Called(limit, cacheFile, clock, top.ticks, w.bw, w.wo,
                getTopGames(limit, cacheFile, clock, w.bw, w.lw, w.wo))
  /\ UNCHANGED <<sessions, last, call, recent, clock, run, replay, race>>

\* time passes between two calls
Tick ==
  /\ top.ticks < MaxTicks
  /\ \E d \in {1, TOP_GAMES_CACHE_TTL_MS - 1} : clock' = clock + d
  /\ top' = [made |-> FALSE, ticks |-> top.ticks + 1]
  /\ UNCHANGED <<sessions, last, call, recent, cacheFile, run, replay, race>>

NextTop == GetTopGames \/ Tick

SpecTop == InitTop /\ [][NextTop]_vars

----------------------------------------------------------------------------
(* Properties of the session registry, checked under Spec *)

\* C1: after any sequence of createSession, userMove, resetSession and
\* switchSide calls run one at a time, failed userMove calls included, every
\* session's currentFen is the position reached by replaying its
\* moveHistory from its initialFen through the rules engine
CurrentFenIsReplay ==
  \A id \in Ids :
    /\ Replay(sessions[id].initialFen, sessions[id].moveHistory).ok
    /\ Replay(sessions[id].initialFen, sessions[id].moveHistory).pos = sessions[id].currentFen

\* a userMove has just failed on a session that holds a user move and an
\* engine reply, next to a second session
FailedMoveOnPlayedSession ==
  /\ last.op = "move" /\ ~last.ok /\ last.id \in Ids
  /\ Len(sessions[last.id].moveHistory) >= 2
  /\ Cardinality(Ids) = 2

\* C4: a userMove whose token the rules engine rejects against currentFen
\* fails as an illegal move, leaves the session exactly as it was and does
\* not ask the engine
RejectedMoveLeavesSession ==
  (last.op = "move" /\ last.id \in Ids /\ ~MoveToken(last.pre.currentFen, last.tok).ok)
    => /\ ~last.ok /\ last.err = "BadRequest"
       /\ sessions[last.id] = last.pre
       /\ last.calls = <<>>

\* the off-board token e2e9 has just been rejected on a session with history
OffBoardTokenRejected ==
  /\ last.op = "move" /\ last.id \in Ids /\ ~last.ok
  /\ last.tok = <<"e", "2", "e", "9">>
  /\ Len(last.pre.moveHistory) > 0

\* C5: resetSession on an existing session yields currentFen = initialFen and
\* an empty moveHistory and keeps userColor, initialFen, id and userId
ResetRestoresStart ==
  (last.op = "reset" /\ last.ok)
    => LET s == sessions[last.id]
       IN /\ s.currentFen = s.initialFen
          /\ s.moveHistory = <<>>
          /\ s.userColor = last.pre.userColor
          /\ s.initialFen = last.pre.initialFen
          /\ s.id = last.pre.id
          /\ s.userId = last.pre.userId

\* a session away from its start, with moves in its history, was just reset
ResetAfterMoves ==
  /\ last.op = "reset" /\ last.ok
  /\ Len(last.pre.moveHistory) >= 2
  /\ last.pre.currentFen # last.pre.initialFen

\* C6: switchSide on an existing session resets the position and flips
\* userColor; after two switchSide calls in a row userColor is what it was
\* before the first, and the session is in its reset state
SwitchFlipsAndResets ==
  (last.op = "switch" /\ last.ok)
    => LET s == sessions[last.id]
       IN /\ s.currentFen = s.initialFen
          /\ s.moveHistory = <<>>
          /\ s.userColor \in Colors
          /\ s.userColor # last.pre.userColor
          /\ last.twice => s.userColor = last.first.userColor

\* switchSide ran twice in a row on a session that had moves
SwitchedTwiceAfterMoves ==
  /\ last.op = "switch" /\ last.ok /\ last.twice
  /\ Len(last.first.moveHistory) > 0

\* C7: a successful userMove appends the user's token and then at most one
\* engine reply: the history grows by 1 or by 2, and when it grows by 2 the
\* second new entry is the bestMove of the one analyzePosition call made
MoveAppendsOneOrTwo ==
  (last.op = "move" /\ last.ok)
    => LET h0 == last.pre.moveHistory
           h1 == sessions[last.id].moveHistory
       IN /\ Len(h1) - Len(h0) \in {1, 2}
          /\ SubSeq(h1, 1, Len(h0)) = h0
          /\ h1[Len(h0) + 1] = last.tok
          /\ Len(last.calls) <= 1
          /\ Len(h1) = Len(h0) + 2
               => /\ Len(last.calls) = 1
                  /\ h1[Len(h0) + 2] = last.calls[1].a.bestMove

\* a userMove was answered by an engine reply
MoveWithEngineReply ==
  /\ last.op = "move" /\ last.ok
  /\ Len(sessions[last.id].moveHistory) = Len(last.pre.moveHistory) + 2

\* C8: during userMove the engine is asked if and only if, after the user's
\* move, the side to move is not userColor and the game is not over; it is
\* asked about the position after the user's move, and an engine reply that
\* is appended is a move of the side opposite to userColor
EngineAskedOnItsTurnOnly ==
  (last.op = "move" /\ last.id \in Ids /\ MoveToken(last.pre.currentFen, last.tok).ok)
    => LET p1 == MoveToken(last.pre.currentFen, last.tok).pos
       IN /\ Len(last.calls) = 1
               <=> (ColorOf(p1.turn) # last.pre.userColor /\ ~IsGameOver(p1))
          /\ Len(last.calls) = 1 => last.calls[1].pos = p1
          /\ Len(last.engineMove) = 1
               => /\ ColorOf(p1.turn) # last.pre.userColor
                  /\ MoveToken(p1, last.engineMove[1]).ok
                  /\ sessions[last.id].currentFen = MoveToken(p1, last.engineMove[1]).pos

\* the user's move ended the game with the other side to move: no engine call
GameEndedByUserMove ==
  /\ last.op = "move" /\ last.ok /\ last.calls = <<>>
  /\ ColorOf(sessions[last.id].currentFen.turn) # sessions[last.id].userColor

\* C9: createSession returns a session whose currentFen is its initialFen
\* (the standard start when none is given), with an empty moveHistory and
\* the requested userColor, under an id no earlier session has; no earlier
\* session is replaced or modified
CreateAddsFreshSession ==
  (last.op = "create" /\ last.ok)
    => LET s == sessions[last.id]
       IN /\ s.id = last.id
          /\ s.currentFen = s.initialFen
          /\ last.initialFen.kind = "none" => s.initialFen = DEFAULT_POSITION
          /\ s.moveHistory = <<>>
          /\ s.userColor = last.userColor
          /\ last.id \notin DOMAIN last.pre
          /\ Ids = DOMAIN last.pre \cup {last.id}
          /\ \A i \in DOMAIN last.pre : sessions[i] = last.pre[i]

\* a session was created next to an earlier one that has moves
CreatedNextToPlayedSession ==
  /\ last.op = "create" /\ last.ok
  /\ \E i \in DOMAIN last.pre : Len(last.pre[i].moveHistory) > 0

----------------------------------------------------------------------------
(* Properties of analyzePosition, checked under SpecEngine *)

\* the first variation of the payload carries a non-empty moves string
ValidPayload(co) ==
  /\ co.kind = "response" /\ co.status = 200
  /\ Len(co.pvs) > 0
  /\ co.pvs[1].movesType = "string"
  /\ Len(co.pvs[1].moves) > 0

LocalSucceeded == call.env.STOCKFISH_PATH /\ call.lo.kind = "resolve"

CloudSucceeded == call.env.ENGINE_API_URL /\ ValidPayload(call.co)

Count(seq, x) == Cardinality({i \in 1..Len(seq) : seq[i] = x})

\* C2: analyzePosition never throws: whatever the position, the
\* configuration and the way each tier ends, it returns an analysis whose
\* source is local, cloud or fallback
AnalyzeNeverThrows ==
  call.made => /\ call.out.kind = "return"
               /\ call.out.a.source \in {"local", "cloud", "fallback"}

\* both tiers are configured and both fail: a timeout, then a request error
AllTiersFailed ==
  /\ call.made
  /\ call.env.STOCKFISH_PATH /\ call.lo.kind = "reject"
  /\ call.env.ENGINE_API_URL /\ call.co.kind = "error"
  /\ call.out.a.source = "fallback"

\* C3: the source is local exactly when a local engine is configured and
\* its run succeeded; otherwise cloud exactly when a remote endpoint is
\* configured and answered 200 with a valid payload; otherwise fallback. The
\* cloud tier is not contacted after a successful local run and no tier is
\* attempted twice
TierPriority ==
  call.made
    => /\ call.out.a.source = "local" <=> LocalSucceeded
       /\ ~LocalSucceeded => (call.out.a.source = "cloud" <=> CloudSucceeded)
       /\ (~LocalSucceeded /\ ~CloudSucceeded) => call.out.a.source = "fallback"
       /\ LocalSucceeded => Count(call.out.tiers, "cloud") = 0
       /\ \A t \in {"local", "cloud", "fallback"} : Count(call.out.tiers, t) <= 1

\* a local run succeeded while the remote endpoint, also configured, had a
\* valid answer ready
LocalWinsOverCloud ==
  /\ call.made /\ LocalSucceeded /\ CloudSucceeded
  /\ call.out.a.source = "local"

----------------------------------------------------------------------------
(* Properties of getRecentGamesForUser, checked under SpecGames *)

LichessLinked == recent.user.found /\ Len(recent.user.lichessUsername) > 0

ChessComLinked == recent.user.found /\ Len(recent.user.chessComUsername) > 0

\* the fetch of provider A failed: a request error, a non-200 status, no
\* body, or a body in which no line is JSON
LichessFailed ==
  /\ LichessLinked
  /\ \/ recent.w.lichess.kind = "error"
     \/ recent.w.lichess.status # 200
     \/ ~recent.w.lichess.hasData
     \/ \A i \in 1..Len(recent.w.lichess.items) : ~recent.w.lichess.items[i].json

\* the fetch of provider B failed: either request ended in an error, a
\* non-200 status or a body without the expected list
ChessComFailed ==
  /\ ChessComLinked
  /\ \/ recent.w.archives.kind = "error" \/ recent.w.archives.status # 200
     \/ ~recent.w.archives.hasData
     \/ recent.w.games.kind = "error" \/ recent.w.games.status # 200
     \/ ~recent.w.games.hasData \/ ~recent.w.iterable

EmptyBody == HttpResponse(200, TRUE, <<>>)

\* the same call had provider A, or provider B, returned an empty list
AsIfLichessEmpty ==
  getRecentGamesForUser(recent.user, recent.limit, [recent.w EXCEPT !.lichess = EmptyBody])

AsIfChessComEmpty ==
  getRecentGamesForUser(recent.user, recent.limit,
                        [recent.w EXCEPT !.archives = ArchiveIndex, !.games = EmptyBody,
                                         !.iterable = TRUE])

LichessFetched ==
  fetchLichessGames(recent.user.lichessUsername, SafeLimit(recent.limit), recent.w.lichess)

ChessComFetched ==
  fetchChessComGames(recent.user.chessComUsername, SafeLimit(recent.limit),
                     recent.w.archives, recent.w.games, recent.w.iterable)

\* C10: the per-provider fetches are independent: in whatever way one linked
\* provider's fetch fails, the call does not fail and returns what it would
\* return had that provider sent an empty list, so the games of the other
\* provider, when its fetch succeeded, are all in the result
ProviderFailureIsIsolated ==
  (recent.made /\ recent.user.found)
    => /\ LichessFailed
            => /\ recent.out.ok
               /\ recent.out = AsIfLichessEmpty
               /\ (ChessComLinked /\ ~ChessComFailed)
                    => Range(ChessComFetched.games) \subseteq Range(recent.out.games)
       /\ ChessComFailed
            => /\ recent.out.ok
               /\ recent.out = AsIfChessComEmpty
               /\ (LichessLinked /\ ~LichessFailed)
                    => Range(LichessFetched.games) \subseteq Range(recent.out.games)

\* provider A's request threw while provider B delivered games
LichessThrewChessComDelivered ==
  /\ recent.made /\ LichessLinked /\ ChessComLinked
  /\ recent.w.lichess.kind = "error"
  /\ ~ChessComFailed
  /\ Len(recent.out.games) > 0

\* the limit clamped into [1, 50], 15 standing in for a limit that is no number
Clamped ==
  IF ~recent.limit.finite THEN 15
  ELSE IF recent.limit.v < 1 THEN 1
  ELSE IF recent.limit.v > 50 THEN 50
  ELSE recent.limit.v

\* every game the linked providers deliver in this call, before any truncation
Delivered ==
  (IF LichessLinked THEN Settled(LichessFetched).games ELSE <<>>) \o
  (IF ChessComLinked
   THEN Settled(fetchChessComGames(recent.user.chessComUsername, Len(recent.w.games.items),
                                   recent.w.archives, recent.w.games, recent.w.iterable)).games
   ELSE <<>>)

\* C11: for an existing user the call returns the empty list without error
\* when no provider is linked; otherwise it returns the games all linked
\* providers deliver, sorted by descending endTime and cut to the limit
\* clamped into [1, 50]: never more than 50 games, never more than the
\* clamped limit, and no game left out is newer than a game returned
NewestOfAllProviders ==
  (recent.made /\ recent.user.found)
    => LET games == recent.out.games
       IN /\ recent.out.ok
          /\ (~LichessLinked /\ ~ChessComLinked) => games = <<>>
          /\ Len(games) <= 50 /\ Len(games) <= Clamped
          /\ Len(games) = Min(Clamped, Len(Delivered))
          /\ \A i \in 1..Len(games), j \in 1..Len(games) :
               i < j => GetTime(games[i].endTime) >= GetTime(games[j].endTime)
          /\ \A g \in Range(games) : Count(games, g) <= Count(Delivered, g)
          /\ \A g \in Range(Delivered) :
               Count(games, g) < Count(Delivered, g)
                 => \A k \in Range(games) : GetTime(k.endTime) >= GetTime(g.endTime)

\* both providers delivered, the limit cut the merged list, and a game of
\* each provider was kept
BothProvidersCut ==
  /\ recent.made /\ LichessLinked /\ ChessComLinked
  /\ Len(recent.out.games) < Len(Delivered)
  /\ \E g \in Range(recent.out.games) : g.source = "lichess"
  /\ \E g \in Range(recent.out.games) : g.source = "chess.com"

----------------------------------------------------------------------------
(* EngineService.runLocalUciEngine: one run of the local engine, event by   *)
(* event. A chunk of output is the list of its lines, a line the list of    *)
(* its words, a word a sequence of characters.                              *)

INFO == <<"i", "n", "f", "o">>

BESTMOVE == <<"b", "e", "s", "t", "m", "o", "v", "e">>

CP == <<"c", "p">>

PV == <<"p", "v">>

\* line.startsWith(word), for a trimmed line that is not empty
StartsWith(line, word) == JsSlice(line[1], 0, Len(word)) = word

\* tokens.indexOf(word), counted from 1; 0 when the word is absent
IndexOf(tokens, word) ==
  IF \E i \in 1..Len(tokens) : tokens[i] = word
  THEN CHOOSE i \in 1..Len(tokens) :
         tokens[i] = word /\ \A j \in 1..(i - 1) : tokens[j] # word
  ELSE 0

\* tokens[i] is a word with at least one character
Truthy(tokens, i) == i <= Len(tokens) /\ Len(tokens[i]) > 0

DigitChars == <<"0", "1", "2", "3", "4", "5", "6", "7", "8", "9">>

RECURSIVE DigitsFrom(_, _, _, _)
DigitsFrom(word, i, seen, v) ==
  IF i > Len(word) \/ IndexOf(DigitChars, word[i]) = 0 THEN [nan |-> ~seen, v |-> v]
  ELSE DigitsFrom(word, i + 1, TRUE, 10 * v + IndexOf(DigitChars, word[i]) - 1)

\* parseInt(word, 10): an optional sign and the digits that follow it
ParseInt(word) ==
  IF Len(word) > 0 /\ word[1] = "-"
  THEN [nan |-> DigitsFrom(word, 2, FALSE, 0).nan, v |-> 0 - DigitsFrom(word, 2, FALSE, 0).v]
  ELSE IF Len(word) > 0 /\ word[1] = "+" THEN DigitsFrom(word, 2, FALSE, 0)
  ELSE DigitsFrom(word, 1, FALSE, 0)

\* mutant: the process is left running
cleanupWithoutKill(r, err, result) ==
  IF r.resolved THEN r
  ELSE [r EXCEPT !.resolved = TRUE,
                 !.endedAt = Len(r.seen),
                 !.timer = IF @ = "armed" THEN "cleared" ELSE @,
                 !.settles = @ + 1,
                 !.promise = IF Len(err) > 0 THEN LocalRejected(err[1])
                             ELSE IF Len(result) > 0 THEN LocalResolved(result[1])
                             ELSE LocalRejected("Engine finished without result")]

\* cleanup(err, result): the first call kills the process, clears the
\* timer and settles the promise; every later call does nothing
\* mutant: the resolved flag is not tested
cleanupUnguarded(r, err, result) ==
  [r EXCEPT !.resolved = TRUE,
            !.endedAt = Len(r.seen),
            !.kills = @ + 1,
            !.alive = FALSE,
            !.timer = IF @ = "armed" THEN "cleared" ELSE @,
            !.settles = @ + 1,
            !.promise = IF Len(err) > 0 THEN LocalRejected(err[1])
                        ELSE IF Len(result) > 0 THEN LocalResolved(result[1])
                        ELSE LocalRejected("Engine finished without result")]

cleanup(r, err, result) ==
  IF r.resolved THEN r
  ELSE [r EXCEPT !.resolved = TRUE,
                 !.endedAt = Len(r.seen),
                 !.kills = @ + 1,
                 !.alive = FALSE,
                 !.timer = IF @ = "armed" THEN "cleared" ELSE @,
                 !.settles = @ + 1,
                 !.promise = IF Len(err) > 0 THEN LocalRejected(err[1])
                             ELSE IF Len(result) > 0 THEN LocalResolved(result[1])
                             ELSE LocalRejected("Engine finished without result")]

\* an info line: the word after cp, when it is a number, is the score, and
\* the words after pv are the principal variation
InfoRead(r, tokens) ==
  [r EXCEPT
     !.evalCp = IF /\ IndexOf(tokens, CP) # 0
                   /\ Truthy(tokens, IndexOf(tokens, CP) + 1)
                   /\ ~ParseInt(tokens[IndexOf(tokens, CP) + 1]).nan
                THEN Some(ParseInt(tokens[IndexOf(tokens, CP) + 1]).v)
                ELSE @,
     !.pv = IF IndexOf(tokens, PV) # 0 /\ Truthy(tokens, IndexOf(tokens, PV) + 1)
            THEN SubSeq(tokens, IndexOf(tokens, PV) + 1, Len(tokens))
            ELSE @]

\* the bestMove variable after a bestmove line
BestMoveOf(r, parts) == IF Truthy(parts, 2) THEN parts[2] ELSE r.bestMove

\* mutant: the move is noted and the run goes on until the timer ends it
BestmoveReadOnly(r, parts) == [r EXCEPT !.bestMove = BestMoveOf(r, parts)]

\* a bestmove line: the run ends with the move, the score and the variation
\* read so far
BestmoveRead(r, parts) ==
  cleanup([r EXCEPT !.bestMove = BestMoveOf(r, parts)], None,
          Some(Analysis(BestMoveOf(r, parts), r.evalCp, MoveDepth, r.pv, Undef)))

InfoLine(r, line) == IF StartsWith(line, INFO) THEN InfoRead(r, line) ELSE r

\* one line of a chunk
OnLine(r, line) ==
  IF StartsWith(line, BESTMOVE) THEN BestmoveRead(InfoLine(r, line), line)
  ELSE InfoLine(r, line)

\* the stdout data handler on the lines of one chunk
RECURSIVE OnData(_, _, _)
OnData(r, lines, i) ==
  IF i > Len(lines) THEN r
  ELSE OnData(OnLine([r EXCEPT !.seen = Append(@, lines[i])], lines[i]), lines, i + 1)

\* String.prototype.trim() on a string whose only white space is the space
RECURSIVE Trim(_)
Trim(str) ==
  IF Len(str) > 0 /\ str[1] = " " THEN Trim(Tail(str))
  ELSE IF Len(str) > 0 /\ str[Len(str)] = " " THEN Trim(SubSeq(str, 1, Len(str) - 1))
  ELSE str

\* data.toString().split('\n').map(trim).filter(Boolean), each line then
\* split into its words
ChunkLines(text) ==
  LET lines == NonEmpty([i \in 1..Len(Split(text, "\n")) |-> Trim(Split(text, "\n")[i])])
  IN [i \in 1..Len(lines) |-> Split(lines[i], " ")]

\* mutant: the timer callback does nothing
OnTimeoutIgnored(r) == [r EXCEPT !.timer = "fired"]

\* the timer callback
OnTimeout(r) == cleanup([r EXCEPT !.timer = "fired"], Some("Local engine timeout"), None)

\* the error handler of the process
OnError(r) == cleanup([r EXCEPT !.errored = TRUE], Some("process error"), None)

\* the state of a run when the promise executor has finished: the process
\* spawned, the timer armed, the four commands written
Spawned(pos, env, script) ==
  [NoRun EXCEPT !.started = TRUE, !.pos = pos, !.env = env, !.spawned = TRUE,
                !.alive = TRUE, !.out = script, !.timer = "armed",
                !.text = Flat(script)]

\* spawn itself threw: the executor ends at once and the promise is rejected
SpawnThrew(pos, env) ==
  [NoRun EXCEPT !.started = TRUE, !.pos = pos, !.env = env, !.settles = 1,
                !.promise = LocalRejected("spawn threw")]

ScoreLine(cp, pv) == <<INFO, <<"d", "e", "p", "t", "h">>, <<"9">>, CP, cp, PV>> \o pv

BestLine(m) == <<BESTMOVE, m>>

\* the text of a line: its words with one space between them
RECURSIVE Unwords(_)
Unwords(words) ==
  IF Len(words) = 0 THEN <<>>
  ELSE IF Len(words) = 1 THEN words[1]
  ELSE words[1] \o <<" ">> \o Unwords(Tail(words))

\* the text of some lines, each ended by a newline
RECURSIVE ChunkText(_)
ChunkText(lines) ==
  IF Len(lines) = 0 THEN <<>>
  ELSE Unwords(lines[1]) \o <<"\n">> \o ChunkText(Tail(lines))

\* what the process may print for a position whose first legal move is m,
\* chunk by chunk and line by line: nothing, informational lines only, a
\* bestmove line after them in the same chunk or in the next, a bestmove
\* line followed by more lines, a bestmove line without a move, and scores
\* that are no numbers
LineScripts(m) ==
  {<<>>,
   <<<<ScoreLine(<<"3", "5">>, <<m>>)>>>>,
   <<<<ScoreLine(<<"3", "5">>, <<m, <<"b", "3", "b", "2">>>>), BestLine(m)>>>>,
   <<<<ScoreLine(<<"-", "2", "0">>, <<m>>)>>, <<BestLine(m)>>>>,
   <<<<BestLine(m), ScoreLine(<<"7">>, <<>>), BestLine(BogusMove)>>>>,
   <<<<<<INFO, CP>>, <<INFO, CP, <<"x">>, PV, <<>>>>, <<BESTMOVE>>>>>>,
   <<<<<<INFO, <<"m", "a", "t", "e">>, <<"1">>>>>>, <<<<BESTMOVE, <<>>, m>>>>>>}

\* the output of a search that ends well: a score line and a bestmove line
StreamText(m) == ChunkText(<<ScoreLine(<<"3", "5">>, <<m>>), BestLine(m)>>)

\* the ways the pipe may cut a text into two chunks
TwoChunks(text) ==
  {<<SubSeq(text, 1, k), SubSeq(text, k + 1, Len(text))>> : k \in 1..(Len(text) - 1)}

\* the chunks of text the data handler may receive: the scripts above with
\* each chunk ending at a line end, and the output of a good search cut in
\* two at any character
Scripts(m) ==
  {[i \in 1..Len(ls) |-> ChunkText(ls[i])] : ls \in LineScripts(m)}
  \cup TwoChunks(StreamText(m))

RunPositions == {DEFAULT_POSITION, StartA}

RunEnvs == {e \in Envs : e.STOCKFISH_PATH}

\* what the remote request of the next tier may answer
RunCloudOutcomes == {CloudError, CloudResponse(200, <<Pv("string", <<"a", "1", "a", "2">>, Some(10), None, None)>>)}

\* analyzePosition calls runLocalUciEngine
StartRun ==
  /\ ~run.started
  /\ \E pos \in RunPositions, env \in RunEnvs :
       \/ \E script \in Scripts(UciOf(Moves(pos)[1])) : run' = Spawned(pos, env, script)
       \/ run' = SpawnThrew(pos, env)
  /\ UNCHANGED <<sessions, last, call, recent, cacheFile, clock, top, replay, race>>

\* the next chunk of output is delivered
Data ==
  /\ run.spawned /\ Len(run.out) > 0
  /\ run' = OnData([run EXCEPT !.out = Tail(@)], ChunkLines(Head(run.out)), 1)
  /\ UNCHANGED <<sessions, last, call, recent, cacheFile, clock, top, replay, race>>

\* the timer fires
TimerFires ==
  /\ run.timer = "armed"
  /\ run' = OnTimeout(run)
  /\ UNCHANGED <<sessions, last, call, recent, cacheFile, clock, top, replay, race>>

\* the process emits an error
ProcessError ==
  /\ run.spawned /\ ~run.errored
  /\ run' = OnError(run)
  /\ UNCHANGED <<sessions, last, call, recent, cacheFile, clock, top, replay, race>>

\* the process exits by itself; the code listens to no exit event
ProcessExit ==
  /\ run.alive
  /\ run' = [run EXCEPT !.alive = FALSE]
  /\ UNCHANGED <<sessions, last, call, recent, cacheFile, clock, top, replay, race>>

\* analyzePosition resumes after the promise is settled and returns
AnalyzeReturns ==
  /\ run.promise.kind # "pending" /\ ~run.returned
  /\ \E co \in RunCloudOutcomes :
       run' = [run EXCEPT !.returned = TRUE,
                          !.ret = analyzePosition(run.pos, MoveDepth, run.env, run.promise, co)]
  /\ UNCHANGED <<sessions, last, call, recent, cacheFile, clock, top, replay, race>>

NextRun == StartRun \/ Data \/ TimerFires \/ ProcessError \/ ProcessExit \/ AnalyzeReturns

SpecRun == Init /\ [][NextRun]_vars

\* the event loop runs a timer that is due and a continuation that is ready
SpecRunFair == SpecRun /\ WF_vars(TimerFires) /\ WF_vars(AnalyzeReturns)

----------------------------------------------------------------------------
(* ChessService.getTopGames: two calls at once. fs.writeFile opens the    *)
(* file, which empties it, writes the text from the start of the file and  *)
(* closes it; the text of an entry is a sequence of cells, one for the     *)
(* head with cachedAt, one per game and one for the closing brackets.      *)

\* the text JSON.stringify({cachedAt, games}) of call c with n games
Cells(c, n) == [i \in 1..(n + 2) |-> [by |-> c, i |-> i, of |-> n + 2]]

\* a write of cells at the start of a file that holds disk
Overlay(disk, cells) == cells \o SubSeq(disk, Len(cells) + 1, Len(disk))

\* the bytes on disk are the whole text of one entry
Complete(disk) ==
  /\ Len(disk) > 0 /\ Len(disk) = disk[1].of
  /\ \A i \in 1..Len(disk) : disk[i].by = disk[1].by /\ disk[i].i = i

\* the cache file as readTopGamesCache finds it on disk
Decoded(disk, calls) ==
  IF Complete(disk)
  THEN CacheEntry(ToISOString(calls[disk[1].by].at), TRUE, calls[disk[1].by].games)
  ELSE GarbageFile

\* the call reads the cache: on a hit it returns, on a miss it goes on
RaceRead(c) ==
  /\ race.calls[c].pc = "idle"
  /\ race' = [race EXCEPT !.calls[c].pc =
                IF /\ readTopGamesCache(cacheFile, clock).hit
                   /\ Len(readTopGamesCache(cacheFile, clock).games) > 0
                THEN "done" ELSE "missed"]
  /\ UNCHANGED <<sessions, last, call, recent, cacheFile, clock, top, run, replay>>

\* the call asks the sources; with games to store it goes on to the write
RaceFetch(c) ==
  /\ race.calls[c].pc = "missed"
  /\ \E bw \in BroadcastWorlds, lw \in LeaderWorlds :
       race' = [race EXCEPT !.calls[c] =
                 IF getTopGames(Limit(2), NoFile, clock, bw, lw, "ok").wrote
                 THEN [pc |-> "fetched", at |-> clock,
                       games |-> getTopGames(Limit(2), NoFile, clock, bw, lw, "ok").fetched]
                 ELSE [pc |-> "done", at |-> clock, games |-> <<>>]]
  /\ UNCHANGED <<sessions, last, call, recent, cacheFile, clock, top, run, replay>>

\* fs.writeFile opens the file for writing, which empties it
RaceOpen(c) ==
  /\ race.calls[c].pc = "fetched"
  /\ race' = [race EXCEPT !.calls[c].pc = "opened", !.disk = <<>>]
  /\ cacheFile' = GarbageFile
  /\ UNCHANGED <<sessions, last, call, recent, clock, top, run, replay>>

\* fs.writeFile writes the text at the start of the file
RaceWrite(c) ==
  /\ race.calls[c].pc = "opened"
  /\ race' = [race EXCEPT !.calls[c].pc = "written",
                          !.disk = Overlay(@, Cells(c, Len(race.calls[c].games)))]
  /\ cacheFile' = Decoded(Overlay(race.disk, Cells(c, Len(race.calls[c].games))), race.calls)
  /\ UNCHANGED <<sessions, last, call, recent, clock, top, run, replay>>

\* fs.writeFile closes the file and the call returns
RaceClose(c) ==
  /\ race.calls[c].pc = "written"
  /\ race' = [race EXCEPT !.calls[c].pc = "done"]
  /\ UNCHANGED <<sessions, last, call, recent, cacheFile, clock, top, run, replay>>

\* the cache files the two calls may find: none, or an expired entry
InitRace ==
  /\ sessions = <<>>
  /\ last = [op |-> "init"]
  /\ call = NoCall
  /\ recent = NoCall
  /\ cacheFile \in {NoFile, CacheEntry(ToISOString(StartMs - TOP_GAMES_CACHE_TTL_MS), TRUE, OldGames)}
  /\ clock = StartMs
  /\ top = NoCall
  /\ run = NoRun
  /\ replay = NoCall
  /\ race = NoRace

NextRace ==
  \E c \in 1..2 : RaceRead(c) \/ RaceFetch(c) \/ RaceOpen(c) \/ RaceWrite(c) \/ RaceClose(c)

SpecRace == InitRace /\ [][NextRace]_vars

----------------------------------------------------------------------------
(* ChessService.buildFenSequenceFromPgn on transcripts of its own *)

\* the number of moves of the longest transcript replayed
MaxPlies == 3

\* FEN tags a transcript may carry: none, a start with a capture on offer,
\* a middle game written with a stale en-passant square, text that is no
\* position
FenTags ==
  {NoFen, FenText(StartA),
   FenText(StaleEp(Pos("b", Piece("p", "a", 2), Piece("p", "b", 3)))), GarbageFen}

\* transcripts: legal games, games with an illegal move at any place, and
\* text that does not parse
Transcripts ==
  {Pgn(parses, fen, moves) :
     parses \in BOOLEAN, fen \in FenTags, moves \in SeqsUpTo(UserTokens, MaxPlies)}

ReplayTranscript ==
  /\ ~replay.made
  /\ \E pgn \in Transcripts :
       replay' = [made |-> TRUE, pgn |-> pgn, fens |-> buildFenSequenceFromPgn(pgn)]
  /\ UNCHANGED <<sessions, last, call, recent, cacheFile, clock, top, run, race>>

NextPgn == ReplayTranscript

SpecPgn == Init /\ [][NextPgn]_vars

----------------------------------------------------------------------------
(* Properties of getTopGames, checked under SpecTop *)

\* the limit of the last getTopGames call clamped into [1, 50]
TopClamped ==
  IF ~top.limit.finite THEN 15
  ELSE IF top.limit.v < 1 THEN 1
  ELSE IF top.limit.v > 50 THEN 50
  ELSE top.limit.v

\* the file the call found is an entry with a timestamp and a list of games
FoundEntry ==
  /\ top.made /\ top.pre.kind = "json" /\ top.pre.isList
  /\ Len(top.pre.cachedAt) = 2

\* now - cachedAt for that entry
FoundAge == top.now - top.pre.cachedAt[2]

\* the call returned the games of the cache file and asked no source
ServedFromCache ==
  /\ top.out.ok /\ top.out.asked = <<>>
  /\ top.out.games = Take(top.pre.games, TopClamped)
  /\ cacheFile = top.pre

ServedOnlyYoungerThanTtl ==
  FoundEntry
    => /\ top.out.source = "cache" => FoundAge < TOP_GAMES_CACHE_TTL_MS
       /\ FoundAge >= TOP_GAMES_CACHE_TTL_MS
            => /\ top.out.source # "cache"
               /\ Len(top.out.asked) > 0
               /\ top.out.ok => top.out.games = Take(top.out.fetched, TopClamped)
               /\ top.out.fetched \in {<<>>} \cup
                    {fetchTopGamesFromBroadcast(TopClamped, bw, 1, top.now) : bw \in BroadcastWorlds}
                    \cup {fetchTopGamesFromLeaderboard(TopClamped, lw).games : lw \in LeaderWorlds}

\* an entry that holds games and is exactly as old as the TTL was found
EntryExactlyExpired ==
  /\ FoundEntry /\ FoundAge = TOP_GAMES_CACHE_TTL_MS
  /\ Len(top.pre.games) > 0
  /\ Len(top.out.asked) > 0

\* the file the call found is missing, unreadable, no JSON, or an object
\* without cachedAt, with a cachedAt that is no timestamp, or with games
\* that is no list
FoundMalformed ==
  /\ top.made
  /\ \/ top.pre.kind # "json"
     \/ Len(top.pre.cachedAt) # 2
     \/ ~top.pre.isList

\* C14: a missing or malformed cache file is a cache miss: the call does not
\* end at the read, returns nothing of that file and goes on to a refresh
MalformedFileIsMiss ==
  FoundMalformed
    => /\ top.out.source # "cache"
       /\ Len(top.out.asked) > 0 /\ top.out.asked[1] = "broadcast"
       /\ top.out.fetched # top.pre.games \/ top.pre.games = <<>>

\* the games the call returns come from a source that succeeded: a
\* broadcast with at least min(10, limit) games, or else a leaderboard with
\* at least one
SourceSucceeded ==
  \/ /\ top.out.asked = <<"broadcast">>
     /\ Len(top.out.fetched) >= Min(10, TopClamped)
  \/ /\ top.out.source = "leaderboard"
     /\ Len(top.out.fetched) > 0

\* the cache file holds the games the call fetched, stamped with its time,
\* and reading it at any moment of the TTL window gives those games
FetchedIsCached ==
  /\ cacheFile = CacheEntry(ToISOString(top.now), TRUE, top.out.fetched)
  /\ \A d \in {0, 1, TOP_GAMES_CACHE_TTL_MS - 1} :
       readTopGamesCache(cacheFile, top.now + d) = [hit |-> TRUE, games |-> top.out.fetched]

\* the statement of C15 as it stands: a call that missed the cache and
\* returns games of the broadcast or of the leaderboard has written them
ReturnedGamesAreCached ==
  (top.made /\ top.out.ok /\ top.out.source # "cache" /\ Len(top.out.games) > 0)
    => FetchedIsCached

\* C15, amended: on a cache miss, when a source succeeds the call attempts
\* one write of that source's games before it returns, and when the write
\* succeeds the file holds them, so a following call inside the TTL window
\* is a hit; a call that returns the games of a broadcast below the minimum
\* writes nothing, and a failed write leaves the file as it was
SucceededSourceIsCached ==
  (top.made /\ top.out.ok /\ top.out.source # "cache")
    => /\ top.out.wrote <=> SourceSucceeded
       /\ (top.out.wrote /\ top.wo = "ok")
            => (FetchedIsCached /\ top.out.games = Take(top.out.fetched, TopClamped))
       /\ (~top.out.wrote \/ top.wo = "failed") => cacheFile = top.pre

\* the games of the leaderboard were written over an expired entry
LeaderboardGamesCached ==
  /\ FoundEntry /\ FoundAge >= TOP_GAMES_CACHE_TTL_MS
  /\ top.out.source = "leaderboard" /\ top.out.wrote /\ top.wo = "ok"
  /\ FetchedIsCached /\ cacheFile # top.pre

----------------------------------------------------------------------------
(* Properties of buildFenSequenceFromPgn, checked under SpecPgn *)

\* the position a transcript starts from: its FEN tag as the rules engine
\* prints it, or the standard start
StartOf(pgn) == LoadFen(pgn.fen).pos

\* the transcript parses and records a legal sequence of moves
LegalTranscript(pgn) ==
  /\ pgn.parses /\ LoadFen(pgn.fen).ok
  /\ Replay(StartOf(pgn), pgn.moves).ok

\* C16: a transcript of n legal moves gives n + 1 positions: position 0 is
\* the start (the FEN tag when there is one, else the standard start) and
\* position i is move i applied to position i - 1
ReplayGivesEveryPosition ==
  (replay.made /\ LegalTranscript(replay.pgn))
    => /\ Len(replay.fens) = Len(replay.pgn.moves) + 1
       /\ replay.fens[1] = StartOf(replay.pgn)
       /\ replay.pgn.fen.kind = "none" => replay.fens[1] = DEFAULT_POSITION
       /\ \A i \in 1..Len(replay.pgn.moves) :
            /\ MoveToken(replay.fens[i], replay.pgn.moves[i]).ok
            /\ replay.fens[i + 1] = MoveToken(replay.fens[i], replay.pgn.moves[i]).pos

\* a game of two moves that starts from its FEN tag was replayed
TaggedGameReplayed ==
  /\ replay.made /\ LegalTranscript(replay.pgn)
  /\ replay.pgn.fen.kind = "text" /\ Len(replay.pgn.moves) = 2
  /\ Len(replay.fens) = 3 /\ replay.fens[1] # DEFAULT_POSITION

\* C17: the replay is all or nothing: a transcript that does not parse, or
\* one of whose moves fails, gives the empty list, and no result is a
\* proper prefix of the positions of the game
ReplayIsAllOrNothing ==
  replay.made
    => /\ ~LegalTranscript(replay.pgn) => replay.fens = <<>>
       /\ replay.fens = <<>> \/ Len(replay.fens) = Len(replay.pgn.moves) + 1

\* a game whose first move is legal and whose second is not gave nothing
BrokenGameDiscarded ==
  /\ replay.made /\ replay.pgn.parses /\ LoadFen(replay.pgn.fen).ok
  /\ Len(replay.pgn.moves) >= 2
  /\ MoveToken(StartOf(replay.pgn), replay.pgn.moves[1]).ok
  /\ ~LegalTranscript(replay.pgn)
  /\ replay.fens = <<>>

----------------------------------------------------------------------------
(* Properties of the fallback tier, checked under SpecEngine *)

\* the piece values of the material score
MaterialValue ==
  [k \in {"p", "n", "b", "r", "q", "k", "x"} |->
     CASE k = "p" -> 100 [] k = "n" -> 320 [] k = "b" -> 330
       [] k = "r" -> 500 [] k = "q" -> 900 [] OTHER -> 0]

\* the material of the position after move m of pos, seen from the side
\* that moves in pos
MaterialAfter(pos, m) ==
  LET after == MakeMove(pos, m)
      mine == IF pos.turn = "w" THEN after.w.k ELSE after.b.k
      theirs == IF pos.turn = "w" THEN after.b.k ELSE after.w.k
  IN MaterialValue[mine] - MaterialValue[theirs]

\* move i is the first of the best moves of pos
FirstBest(pos, i) ==
  /\ \A j \in 1..Len(Moves(pos)) : MaterialAfter(pos, Moves(pos)[j]) <= MaterialAfter(pos, Moves(pos)[i])
  /\ \A j \in 1..(i - 1) : MaterialAfter(pos, Moves(pos)[j]) < MaterialAfter(pos, Moves(pos)[i])

\* C18: the fallback tier answers the legal move after which the material
\* of the side to move is greatest, the first such move in generation order
\* on ties, and an empty bestMove when the position has no legal move
FallbackPicksMostMaterial ==
  (call.made /\ call.out.a.source = "fallback")
    => IF Len(Moves(call.pos)) = 0
       THEN call.out.a.bestMove = <<>> /\ call.out.a.pv = <<>> /\ call.out.kind = "return"
       ELSE \E i \in 1..Len(Moves(call.pos)) :
              /\ FirstBest(call.pos, i)
              /\ call.out.a.bestMove = UciOf(Moves(call.pos)[i])
              /\ call.out.a.evaluation = Some(MaterialAfter(call.pos, Moves(call.pos)[i]))

\* the fallback tier answered for a position in which two moves are best
FallbackBrokeTie ==
  /\ call.made /\ call.out.a.source = "fallback"
  /\ \E i, j \in 1..Len(Moves(call.pos)) :
       /\ i < j /\ FirstBest(call.pos, i)
       /\ MaterialAfter(call.pos, Moves(call.pos)[j]) = MaterialAfter(call.pos, Moves(call.pos)[i])
       /\ call.out.a.bestMove = UciOf(Moves(call.pos)[i])

----------------------------------------------------------------------------
(* Properties of a local engine run, checked under SpecRun and SpecRunFair *)

\* the terminal states of a run
RunDone == run.promise.kind = "resolve"

RunTimedOut == run.promise.kind = "reject" /\ run.promise.why = "Local engine timeout"

RunFailed == run.promise.kind = "reject" /\ run.promise.why # "Local engine timeout"

\* C19: when a run ends by timeout or by an error of the process, the
\* process has been killed, the promise is rejected, and analyzePosition,
\* once it returns, has gone on to the next tier: its analysis is not of
\* source local
FailedRunIsKilledAndSkipped ==
  (run.spawned /\ (RunTimedOut \/ RunFailed))
    => /\ run.kills >= 1 /\ ~run.alive
       /\ run.promise.kind = "reject"
       /\ run.returned
            => /\ run.ret.kind = "return"
               /\ run.ret.a.source \in {"cloud", "fallback"}
               /\ run.ret.tiers[1] = "local" /\ Len(run.ret.tiers) >= 2

\* a run that printed a score but no bestmove line timed out, and
\* analyzePosition answered from another tier
TimedOutRunSkipped ==
  /\ run.spawned /\ RunTimedOut /\ run.evalCp # None
  /\ run.kills = 1 /\ run.returned /\ run.ret.a.source # "local"

\* a run has been started
RunStarted == run.started

\* the run is in a terminal state and analyzePosition has returned
RunOver == (RunDone \/ RunTimedOut \/ RunFailed) /\ run.returned

\* C20: every run that is started ends as Done, TimedOut or Failed, and
\* analyzePosition returns, whatever the process does
RunEventuallyOver == RunStarted ~> RunOver

\* a run whose process printed informational lines only was ended by the
\* timer and analyzePosition has returned
SilentExitTimedOut ==
  /\ run.spawned /\ RunTimedOut /\ run.out = <<>> /\ run.pv # <<>>
  /\ ~run.errored /\ run.returned

\* the score of the last of the first k lines read that is an informational
\* line with a number after cp, if there is one
RECURSIVE ScoreSoFar(_, _)
ScoreSoFar(lines, k) ==
  IF k = 0 THEN None
  ELSE IF StartsWith(lines[k], INFO) /\ InfoRead(NoRun, lines[k]).evalCp # None
       THEN InfoRead(NoRun, lines[k]).evalCp
       ELSE ScoreSoFar(lines, k - 1)

\* the variation of the last of the first k lines read that is an
\* informational line with words after pv, if there is one
RECURSIVE PvSoFar(_, _)
PvSoFar(lines, k) ==
  IF k = 0 THEN <<>>
  ELSE IF StartsWith(lines[k], INFO) /\ InfoRead(NoRun, lines[k]).pv # <<>>
       THEN InfoRead(NoRun, lines[k]).pv
       ELSE PvSoFar(lines, k - 1)

\* line k of the lines read begins with bestmove and the run had not ended
\* when it was read
BestmoveInTime(k) ==
  /\ StartsWith(run.seen[k], BESTMOVE)
  /\ ~(run.endedAt >= 0 /\ run.endedAt < k)

\* C21: a bestmove line read while the run has not ended ends it there,
\* before the timer fires: the promise is resolved with the move of that
\* line and with the score and the variation of the informational lines
\* read before it, the timer is cleared and the process is killed
BestmoveEndsRun ==
  \A k \in 1..Len(run.seen) :
    BestmoveInTime(k)
      => /\ RunDone /\ run.endedAt = k
         /\ run.timer = "cleared" /\ run.kills = 1 /\ ~run.alive
         /\ Truthy(run.seen[k], 2) => run.promise.a.bestMove = run.seen[k][2]
         /\ run.promise.a.evaluation = ScoreSoFar(run.seen, k - 1)
         /\ run.promise.a.pv = PvSoFar(run.seen, k - 1)

\* a bestmove line that came in the chunk after a score line ended the run
\* while the timer was armed
BestmoveAfterScoreEndedRun ==
  /\ RunDone /\ run.endedAt = 2 /\ run.timer = "cleared"
  /\ run.promise.a.evaluation = Some(-20)
  /\ run.promise.a.bestMove = run.seen[2][2]
  /\ run.promise.a.pv = <<run.seen[2][2]>>

----------------------------------------------------------------------------
(* Properties of the games that ingestion produces *)

GameResults == {"1-0", "0-1", "½-½", "ongoing"}

\* C22: every game that ingestion produces has a result that is one of
\* "1-0", "0-1", "½-½" and "ongoing"; stated here of the games a
\* getTopGames call fetched from the broadcast or the leaderboard source
TopGamesHaveKnownResults ==
  (top.made /\ top.out.source # "cache")
    => \A i \in 1..Len(top.out.fetched) : top.out.fetched[i].result \in GameResults

----------------------------------------------------------------------------
(* Properties of two getTopGames calls at once, checked under SpecRace *)

\* both calls missed the cache, stored games and have returned
BothRefreshed ==
  \A c \in 1..2 : race.calls[c].pc = "done" /\ Len(race.calls[c].games) > 0

\* C23: when two calls that both missed the cache have finished, the cache
\* file holds one complete entry, the one written by one of the two calls,
\* and never a mixture of the two
RaceLeavesOneEntry ==
  BothRefreshed
    => \E c \in 1..2 :
         /\ race.disk = Cells(c, Len(race.calls[c].games))
         /\ cacheFile = CacheEntry(ToISOString(race.calls[c].at), TRUE, race.calls[c].games)

----------------------------------------------------------------------------
(* Properties of the cloud tier, checked under SpecEngine *)

\* the call reached the cloud tier
CloudAsked == call.made /\ ~LocalSucceeded /\ call.env.ENGINE_API_URL

\* the words of the moves string of the first variation
MoveTokens == NonEmpty(Split(call.co.pvs[1].moves, " "))

\* cp when it is a number, else the mate sentinel, else null
CloudScore ==
  IF call.co.pvs[1].cp # None THEN call.co.pvs[1].cp
  ELSE IF call.co.pvs[1].mate = None THEN None
  ELSE IF call.co.pvs[1].mate[1] > 0 THEN Some(100000)
  ELSE Some(-100000)

\* C24: in the cloud tier a 200 answer whose first variation has a
\* non-empty moves string gives source cloud, the first word as bestMove,
\* all the words as pv, and as evaluation cp, else the mate sentinel with
\* the sign of mate, else null; any other answer gives source fallback
CloudPayloadDecides ==
  CloudAsked
    => IF ValidPayload(call.co)
       THEN /\ call.out.a.source = "cloud"
            /\ call.out.a.pv = MoveTokens
            /\ Len(MoveTokens) > 0 => call.out.a.bestMove = MoveTokens[1]
            /\ call.out.a.evaluation = CloudScore
       ELSE call.out.a.source = "fallback"

\* a variation with a negative mate value and no cp was answered with the
\* negative sentinel
MateSentinelReturned ==
  /\ CloudAsked /\ ValidPayload(call.co)
  /\ call.co.pvs[1].cp = None /\ call.co.pvs[1].mate # None
  /\ call.out.a.evaluation = Some(-100000)
  /\ call.out.a.source = "cloud"

----------------------------------------------------------------------------
(* Properties of userMove when the engine's move is not legal, checked    *)
(* under Spec                                                             *)

\* the engine was asked and answered a best move that the rules engine
\* rejects in the position after the user's move
EngineMoveRejected ==
  /\ last.op = "move" /\ last.id \in Ids /\ Len(last.calls) = 1
  /\ last.calls[1].kind = "return" /\ Len(last.calls[1].a.bestMove) > 0
  /\ ~MoveToken(last.calls[1].pos, last.calls[1].a.bestMove).ok

\* C25: when the rules engine rejects the engine's best move, userMove
\* does not apply it: the call completes, the session has the user's move
\* only, currentFen is the position after it and no engineMove is reported
IllegalEngineMoveIsSkipped ==
  EngineMoveRejected
    => /\ last.ok /\ last.engineMove = None
       /\ sessions[last.id].moveHistory = Append(last.pre.moveHistory, last.tok)
       /\ sessions[last.id].currentFen = MoveToken(last.pre.currentFen, last.tok).pos

----------------------------------------------------------------------------
(* The three ingestion batches on their own: fetchLichessGames,           *)
(* fetchChessComGames and parseBroadcastPgn applied to one payload each   *)

\* the lines of provider A, and a game object that replays but has no id
BatchLines ==
  LichessLines \cup {LichessLine(TRUE, "", Some(PgnFromStartA), "mate", "white", Some(20000), None)}

\* the games of provider B, and one without a transcript
BatchRaw == ChessComRaw \cup {ChessComGame("m", None, "win", "checkmated", Some(70))}

\* the blocks of a broadcast transcript
BatchBlocks ==
  {BlockA, BlockB, Block(PgnGarbage, None, None, None), Block(PgnCapture, None, None, None)}

BatchLimits == 1..(MaxGames + 1)

\* one batch: the provider, its payload, the limit, the games collected
\* before the sort and what the function returns
Batch(provider, payload, limit, games, out) ==
  [made |-> TRUE, provider |-> provider, payload |-> payload, limit |-> limit,
   games |-> games, out |-> out]

FetchLichessBatch ==
  /\ ~recent.made
  /\ \E limit \in BatchLimits :
       \E lines \in SeqsUpTo(BatchLines, Min(limit, MaxGames)) \ {<<>>} :
         recent' = Batch("lichess", lines, limit, LichessGames(lines, 1),
                         fetchLichessGames(<<"l">>, limit, HttpResponse(200, TRUE, lines)))
  /\ UNCHANGED <<sessions, last, call, cacheFile, clock, top, run, replay, race>>

FetchChessComBatch ==
  /\ ~recent.made
  /\ \E limit \in BatchLimits :
       \E raw \in SeqsUpTo(BatchRaw, MaxGames) \ {<<>>} :
         recent' = Batch("chess.com", raw, limit, ChessComGames(raw, 1),
                         fetchChessComGames(<<"c">>, limit, ArchiveIndex,
                                            HttpResponse(200, TRUE, raw), TRUE))
  /\ UNCHANGED <<sessions, last, call, cacheFile, clock, top, run, replay, race>>

ParseBroadcastBatch ==
  /\ ~recent.made
  /\ \E limit \in BatchLimits :
       \E blocks \in SeqsUpTo(BatchBlocks, MaxGames + 1) \ {<<>>} :
         recent' = Batch("broadcast", blocks, limit,
                         ParseBlocks(blocks, 1, 1, limit, clock, <<>>),
                         Resolved(parseBroadcastPgn(blocks, 1, limit, clock)))
  /\ UNCHANGED <<sessions, last, call, cacheFile, clock, top, run, replay, race>>

NextBatch == FetchLichessBatch \/ FetchChessComBatch \/ ParseBroadcastBatch

SpecBatch == Init /\ [][NextBatch]_vars

\* the payload entry carries a transcript and the transcript replays
TranscriptReplays(entry) ==
  IF recent.provider = "broadcast" THEN LegalTranscript(entry.pgn)
  ELSE Len(entry.pgn) = 1 /\ LegalTranscript(entry.pgn[1])

\* the transcript of a payload entry that has one
TranscriptOf(entry) == IF recent.provider = "broadcast" THEN entry.pgn ELSE entry.pgn[1]

\* provider A's entry is a game object with an id
Identified(entry) == recent.provider = "lichess" => entry.json /\ entry.id # ""

UsableEntry(entry) == Identified(entry) /\ TranscriptReplays(entry)

\* the positions of each collected game, in the order they were collected
FensOf(games) == [i \in 1..Len(games) |-> games[i].fens]

\* the positions of each entry of a list of entries that replay
ExpectedFens(entries) ==
  [i \in 1..Len(entries) |-> buildFenSequenceFromPgn(TranscriptOf(entries[i]))]

\* C26 as stated: a batch is not aborted by a game whose transcript is
\* missing or does not replay, and collects exactly the payload's games
\* whose transcripts replayed, in the payload's order
BatchKeepsEveryReplayedGame ==
  recent.made
    => /\ recent.out.kind = "resolve"
       /\ FensOf(recent.games) = ExpectedFens(SelectSeq(recent.payload, TranscriptReplays))

\* C26, amended: the batch is not aborted, and collects in the payload's
\* order the games whose transcripts replayed, less provider A's entries
\* without an id, and for a broadcast no more than the first limit of them
BatchKeepsUsableGames ==
  recent.made
    => /\ recent.out.kind = "resolve"
       /\ FensOf(recent.games) =
            ExpectedFens(IF recent.provider = "broadcast"
                         THEN Take(SelectSeq(recent.payload, UsableEntry), recent.limit)
                         ELSE SelectSeq(recent.payload, UsableEntry))

\* a batch in which a game that does not replay stands before one that does
SkippedGameBeforeKeptGame ==
  /\ recent.made /\ Len(recent.games) > 0
  /\ \E i \in 1..Len(recent.payload) : \E j \in (i + 1)..Len(recent.payload) :
       ~TranscriptReplays(recent.payload[i]) /\ UsableEntry(recent.payload[j])

----------------------------------------------------------------------------
(* Properties of the order of the sources in getTopGames, checked under   *)
(* SpecTop                                                                *)

\* the call found no usable cache entry
TopMissed ==
  /\ top.made
  /\ ~(readTopGamesCache(top.pre, top.now).hit
        /\ Len(readTopGamesCache(top.pre, top.now).games) > 0)

\* what the broadcast source yields to the call
BroadcastYield == fetchTopGamesFromBroadcast(TopClamped, top.bw, 1, top.now)

\* the minimum acceptable count
MinAcceptable == Min(10, TopClamped)

\* C27: on a miss the broadcast source is asked first; the leaderboard
\* source is asked only when the broadcast yielded fewer than min(10,
\* clamped limit) games, and when the broadcast yielded at least that many
\* the leaderboard is not asked and the broadcast games are returned
BroadcastFirstLeaderboardOnShortfall ==
  TopMissed
    => /\ Len(top.out.asked) > 0 /\ top.out.asked[1] = "broadcast"
       /\ top.out.asked = <<"broadcast", "leaderboard">>
            <=> Len(BroadcastYield) < MinAcceptable
       /\ Len(BroadcastYield) >= MinAcceptable
            => /\ top.out.asked = <<"broadcast">>
               /\ top.out.ok /\ top.out.games = Take(BroadcastYield, TopClamped)

\* a miss on which the broadcast yielded two games for a limit of two
BroadcastSufficed ==
  /\ TopMissed /\ TopClamped = 2 /\ Len(BroadcastYield) = 2
  /\ top.out.asked = <<"broadcast">> /\ Len(top.out.games) = 2

----------------------------------------------------------------------------
(* Properties of the stdout handler over chunk boundaries, checked under  *)
(* SpecRun                                                                *)

\* the run as it would stand had the whole output arrived in one chunk
WholeStream == OnData(Spawned(run.pos, run.env, <<>>), ChunkLines(run.text), 1)

\* every chunk has been delivered, and neither the timer nor an error of
\* the process has come in between
OutputReadUndisturbed ==
  /\ run.spawned /\ Len(run.text) > 0 /\ run.out = <<>>
  /\ run.timer # "fired" /\ ~run.errored

\* C28: the output is processed as whole lines whichever way the stream is
\* cut into chunks: once all of it has been read the run stands as if the
\* output had arrived in one chunk, with the same outcome and analysis
ChunkBoundariesDoNotMatter ==
  OutputReadUndisturbed
    => /\ run.promise = WholeStream.promise
       /\ run.seen = WholeStream.seen

----------------------------------------------------------------------------
(* Properties of the settling of a run, checked under SpecRun             *)

\* a spawned run has been settled and killed once if it has ended, and not
\* at all if it has not
SettledAsOftenAsEnded ==
  run.spawned
    => /\ run.settles = (IF run.resolved THEN 1 ELSE 0)
       /\ run.kills = (IF run.resolved THEN 1 ELSE 0)
       /\ run.resolved <=> run.promise.kind # "pending"

\* a step of a run that has ended leaves its outcome as it is, and a step
\* after analyzePosition has returned leaves the returned analysis as it is
LaterEventsChangeNothing ==
  /\ run.resolved
       => /\ run'.resolved /\ run'.promise = run.promise
          /\ run'.kills = run.kills /\ run'.settles = run.settles
          /\ run'.endedAt = run.endedAt
  /\ run.returned => run'.returned /\ run'.ret = run.ret

\* C29: a run is settled exactly once, by the first of a bestmove line, the
\* timer and a process error: the promise is settled once and the process
\* killed once, and no later event changes the outcome or the analysis
RunSettledOnce == [](SettledAsOftenAsEnded) /\ [][LaterEventsChangeNothing]_vars

\* a run resolved by a bestmove line on which a further bestmove line was
\* read and a process error arrived afterwards
LateEventsAfterBestmove ==
  /\ RunDone /\ run.errored /\ run.kills = 1 /\ run.settles = 1
  /\ Len(run.seen) > run.endedAt
  /\ StartsWith(run.seen[Len(run.seen)], BESTMOVE)

----------------------------------------------------------------------------
(* ChessService.userMove step by step: the call is suspended at its await *)
(* of analyzePosition, and other requests are served in the meantime      *)

\* a userMove call suspended at the await: s1 is the session as the call
\* left it, and s1.currentFen the position of its own Chess object
Suspended(id, moveUci, s1) == [made |-> TRUE, id |-> id, tok |-> moveUci, s1 |-> s1]

\* userMove after the await, on the session as it is now and on the call's
\* own Chess object, which holds the position chess: the engine's move is
\* played on that object, pushed on the session's history as it is now, and
\* currentFen is set from the object
Resumed(session, chess, moveUci, out, rm) ==
  IF out.kind = "throw" THEN Outcome(session, FALSE, "Internal", <<>>, None)
  ELSE IF Len(out.a.bestMove) = 0 THEN Outcome(session, TRUE, "", <<>>, None)
  ELSE IF ~MoveToken(chess, out.a.bestMove).ok /\ rm = "throws"
       THEN Outcome(session, FALSE, "Internal", <<>>, None)
  ELSE IF ~MoveToken(chess, out.a.bestMove).ok THEN Outcome(session, TRUE, "", <<>>, None)
  ELSE Outcome(EngineReply(session, moveUci, out.a.bestMove,
                           MoveToken(chess, out.a.bestMove).pos),
               TRUE, "", <<>>, Some(out.a.bestMove))

\* userMove up to its await, or to its end when the engine is not asked
BeginOn(id, moveUci, result) ==
  IF ~result.ok
  THEN /\ Stored(id, moveUci, Outcome(AfterRejected(sessions[id], moveUci), FALSE,
                                      "BadRequest", <<>>, None))
       /\ UNCHANGED call
  ELSE IF ~EngineTurn(sessions[id], result.pos)
  THEN /\ Stored(id, moveUci, Outcome(Pushed(sessions[id], moveUci, result.pos), TRUE, "",
                                      <<>>, None))
       /\ UNCHANGED call
  ELSE /\ sessions' = [sessions EXCEPT ![id] = Pushed(sessions[id], moveUci, result.pos)]
       /\ call' = Suspended(id, moveUci, Pushed(sessions[id], moveUci, result.pos))
       /\ last' = [op |-> "await", ok |-> TRUE, id |-> id]

\* a userMove request arrives while no other is suspended
MoveBegins ==
  /\ ~call.made
  /\ \E id \in Ids \cup {UnknownId} :
       \E moveUci \in TriedTokens(id) :
         \/ NotFound("move", id) /\ UNCHANGED call
         \/ /\ id \in Ids
            /\ BeginOn(id, moveUci, MoveToken(sessions[id].currentFen, moveUci))
  /\ UNCHANGED <<recent, cacheFile, clock, top, run, replay, race>>

\* the suspended call has gone on to its end as o; interrupted is whether
\* the session was changed while the call was suspended
Finished(id, o) ==
  /\ sessions' = [sessions EXCEPT ![id] = o.session]
  /\ last' = [op |-> "resumed", id |-> id, ok |-> o.ok, engineMove |-> o.engineMove,
              pre |-> sessions[id], interrupted |-> sessions[id] # call.s1]
  /\ call' = NoCall

\* analyzePosition returns and the suspended userMove goes on
MoveResumes ==
  /\ call.made
  /\ \E sc \in MoveScenarios(call.s1.currentFen) :
       Finished(call.id,
                Resumed(sessions[call.id], call.s1.currentFen, call.tok,
                        analyzePosition(call.s1.currentFen, MoveDepth, sc.env, sc.lo, sc.co),
                        sc.rm))
  /\ UNCHANGED <<recent, cacheFile, clock, top, run, replay, race>>

NextAwait == CreateSession \/ ResetSession \/ SwitchSide \/ MoveBegins \/ MoveResumes

SpecAwait == Init /\ [][NextAwait]_vars

\* a userMove has finished after resetSession or switchSide changed its
\* session while it was suspended
ResumedAfterReset ==
  /\ last.op = "resumed" /\ last.interrupted
  /\ last.pre.moveHistory = <<>> /\ last.pre.currentFen = last.pre.initialFen

\* C30: when resetSession or switchSide completes while a userMove on the
\* same session is suspended at its await, then once the userMove has
\* finished currentFen is still the replay of moveHistory from initialFen
ResetDuringMoveKeepsReplay ==
  ResumedAfterReset
    => /\ Replay(sessions[last.id].initialFen, sessions[last.id].moveHistory).ok
       /\ Replay(sessions[last.id].initialFen, sessions[last.id].moveHistory).pos
            = sessions[last.id].currentFen

====
